---------------------------- MODULE Spec2Model ----------------------------
(***************************************************************************)
(* Bank statement analysis engine v5.2.1 (bank_analysis_v5_2_1.py) and the *)
(* Streamlit front end that drives it (app.py).                            *)
(*                                                                         *)
(* Two specifications share this module:                                   *)
(*   Spec     one call of analyze(): load, pool, missing-bank detection,   *)
(*            transfer matcher, credit and debit pipelines, totals,        *)
(*            accounts array, period, report.                              *)
(*   SpecApp  several browser sessions running the script app.py against   *)
(*            the one imported engine module (EnginePatch, ENGINE_LOCK).   *)
(*                                                                         *)
(* Python strings are modelled as sequences of one-character strings, so   *)
(* that `in`, upper(), split(), slicing and the ordering of str are        *)
(* computed and not assumed.  Amounts are integers (whole currency units). *)
(***************************************************************************)
EXTENDS Integers, Sequences, FiniteSets, TLC

(***************************************************************************)
(* Strings                                                                 *)
(***************************************************************************)

\* The characters that occur, in code point order (the order of str.__lt__).
Chars ==
    << " ", "&", "(", ")", "-", "/",
       "0", "1", "2", "3", "4", "5", "6", "7", "8", "9",
       "A", "B", "C", "D", "E", "F", "G", "H", "I", "J", "K", "L", "M",
       "N", "O", "P", "Q", "R", "S", "T", "U", "V", "W", "X", "Y", "Z",
       "a", "b", "c", "d", "e", "f", "g", "h", "i", "j", "k", "l", "m",
       "n", "o", "p", "q", "r", "s", "t", "u", "v", "w", "x", "y", "z" >>

CharSet == { Chars[i] : i \in 1..Len(Chars) }

\* Position of a character in code point order.
Ord == [ c \in CharSet |-> CHOOSE i \in 1..Len(Chars) : Chars[i] = c ]

Digits == { "0", "1", "2", "3", "4", "5", "6", "7", "8", "9" }

DigitVal == [ c \in Digits |-> Ord[c] - Ord["0"] ]

\* str.upper() on one character: a..z map to A..Z, everything else stays.
UpperChar ==
    [ c \in CharSet |->
        IF Ord[c] >= Ord["a"] /\ Ord[c] <= Ord["z"]
        THEN Chars[Ord[c] - Ord["a"] + Ord["A"]]
        ELSE c ]

\* str.upper()
Upper(s) == [ i \in 1..Len(s) |-> UpperChar[s[i]] ]

\* needle in hay (substring test; the empty string is in every string)
Contains(needle, hay) ==
    \E i \in 0..(Len(hay) - Len(needle)) :
        \A j \in 1..Len(needle) : hay[i + j] = needle[j]

\* any(kw in s for kw in kws), kws a sequence of strings
AnyIn(kws, s) == \E k \in 1..Len(kws) : Contains(kws[k], s)

\* a < b for str: the first differing character decides, a proper prefix is less.
StrLess(a, b) ==
    \E i \in 1..(Len(b)) :
        /\ \A j \in 1..(i - 1) : j <= Len(a) /\ a[j] = b[j]
        /\ i - 1 <= Len(a)
        /\ \/ i = Len(a) + 1
           \/ i <= Len(a) /\ Ord[a[i]] < Ord[b[i]]

\* s[:n]
Prefix(s, n) == SubSeq(s, 1, IF n < Len(s) THEN n ELSE Len(s))

\* s.split(): the maximal runs of non-blank characters, in order.
RECURSIVE SplitFrom(_, _, _)
SplitFrom(s, i, cur) ==
    IF i > Len(s)
    THEN IF cur = <<>> THEN <<>> ELSE <<cur>>
    ELSE IF s[i] = " "
         THEN (IF cur = <<>> THEN <<>> ELSE <<cur>>) \o SplitFrom(s, i + 1, <<>>)
         ELSE SplitFrom(s, i + 1, Append(cur, s[i]))

Split(s) == SplitFrom(s, 1, <<>>)

\* s.strip() for blanks
RECURSIVE Strip(_)
Strip(s) ==
    IF s = <<>> THEN s
    ELSE IF s[1] = " " THEN Strip(Tail(s))
    ELSE IF s[Len(s)] = " " THEN Strip(SubSeq(s, 1, Len(s) - 1))
    ELSE s

\* ' '.join(words)
RECURSIVE JoinBlank(_)
JoinBlank(ws) ==
    IF ws = <<>> THEN <<>>
    ELSE IF Len(ws) = 1 THEN ws[1]
    ELSE ws[1] \o <<" ">> \o JoinBlank(Tail(ws))

\* s.find(sub): the first 0-based position of sub in s (sub is known to occur)
Find(sub, s) ==
    CHOOSE i \in 0..(Len(s) - Len(sub)) :
        /\ \A j \in 1..Len(sub) : s[i + j] = sub[j]
        /\ \A k \in 0..(i - 1) : \E j \in 1..Len(sub) : s[k + j] # sub[j]

(***************************************************************************)
(* Constants of the engine (bank_analysis_v5_2_1.py, lines 95-163)         *)
(***************************************************************************)

\* BANK_CODES: code -> bank name, in the order the dict literal lists them.
BANK_CODES ==
    << [code |-> <<"A","M","F","B">>, name |-> <<"A","m","B","a","n","k">>],
       [code |-> <<"A","M","B">>, name |-> <<"A","m","B","a","n","k">>],
       [code |-> <<"A","M","B","A","N","K">>, name |-> <<"A","m","B","a","n","k">>],
       [code |-> <<"B","I","M","B">>, name |-> <<"B","a","n","k"," ","I","s","l","a","m">>],
       [code |-> <<"B","A","N","K"," ","I","S","L","A","M">>, name |-> <<"B","a","n","k"," ","I","s","l","a","m">>],
       [code |-> <<"M","B","B">>, name |-> <<"M","a","y","b","a","n","k">>],
       [code |-> <<"M","A","Y","B","A","N","K">>, name |-> <<"M","a","y","b","a","n","k">>],
       [code |-> <<"R","H","B">>, name |-> <<"R","H","B"," ","B","a","n","k">>],
       [code |-> <<"P","B","B">>, name |-> <<"P","u","b","l","i","c"," ","B","a","n","k">>],
       [code |-> <<"P","U","B","L","I","C"," ","B","A","N","K">>, name |-> <<"P","u","b","l","i","c"," ","B","a","n","k">>],
       [code |-> <<"O","C","B","C">>, name |-> <<"O","C","B","C"," ","B","a","n","k">>],
       [code |-> <<"H","S","B","C">>, name |-> <<"H","S","B","C"," ","B","a","n","k">>],
       [code |-> <<"U","O","B">>, name |-> <<"U","O","B"," ","B","a","n","k">>],
       [code |-> <<"A","F","F","I","N">>, name |-> <<"A","f","f","i","n"," ","B","a","n","k">>],
       [code |-> <<"B","S","N">>, name |-> <<"B","S","N">>],
       [code |-> <<"C","I","T","I">>, name |-> <<"C","i","t","i","b","a","n","k">>],
       [code |-> <<"S","C","B">>, name |-> <<"S","t","a","n","d","a","r","d"," ","C","h","a","r","t","e","r","e","d">>] >>

INTER_ACCOUNT_MARKERS ==
    << <<"I","T","B"," ","T","R","F">>,
       <<"I","T","C"," ","T","R","F">>,
       <<"I","N","T","E","R","B","A","N","K">>,
       <<"I","N","T","E","R"," ","A","C","C">>,
       <<"O","W","N"," ","A","C","C">>,
       <<"I","N","T","E","R","C","O"," ","T","X","N">>,
       <<"I","N","T","E","R","-","C","O">>,
       <<"I","N","T","R","A"," ","A","C","C">>,
       <<"S","E","L","F"," ","T","R","F">>,
       <<"T","R"," ","F","R","O","M"," ","C","A">>,
       <<"T","R"," ","T","O"," ","C","/","A">> >>

STATUTORY_KEYWORDS ==
    << [type |-> "EPF/KWSP", keywords |->
          << <<"K","U","M","P","U","L","A","N"," ","W","A","N","G"," ","S","I","M","P","A","N","A","N"," ","P","E","K","E","R","J","A">>,
             <<"K","W","S","P">>,
             <<"E","P","F">>,
             <<"E","M","P","L","O","Y","E","E","S"," ","P","R","O","V","I","D","E","N","T">> >>],
       [type |-> "SOCSO/PERKESO", keywords |->
          << <<"P","E","R","T","U","B","U","H","A","N"," ","K","E","S","E","L","A","M","A","T","A","N"," ","S","O","S","I","A","L">>,
             <<"P","E","R","K","E","S","O">>,
             <<"S","O","C","S","O">>,
             <<"S","O","C","I","A","L"," ","S","E","C","U","R","I","T","Y">> >>],
       [type |-> "LHDN/Tax", keywords |->
          << <<"L","E","M","B","A","G","A"," ","H","A","S","I","L"," ","D","A","L","A","M"," ","N","E","G","E","R","I">>,
             <<"L","H","D","N">>,
             <<"P","C","B">>,
             <<"M","T","D">>,
             <<"C","P","3","9">>,
             <<"C","P","3","8">>,
             <<"I","N","C","O","M","E"," ","T","A","X">> >>],
       [type |-> "HRDF/PSMB", keywords |->
          << <<"P","E","M","B","A","N","G","U","N","A","N"," ","S","U","M","B","E","R"," ","M","A","N","U","S","I","A">>,
             <<"H","R","D","F">>,
             <<"P","S","M","B">>,
             <<"H","R","D"," ","C","O","R","P">> >>] >>

SALARY_KEYWORDS ==
    << <<"S","A","L","A","R","Y">>,
       <<"G","A","J","I">>,
       <<"P","A","Y","R","O","L","L">>,
       <<"W","A","G","E","S">>,
       <<"A","L","L","O","W","A","N","C","E">>,
       <<"E","L","A","U","N">>,
       <<"B","O","N","U","S">>,
       <<"C","O","M","M","I","S","S","I","O","N">>,
       <<"I","N","C","E","N","T","I","V","E">>,
       <<"E","P","F"," ","E","M","P","L","O","Y","E","R">>,
       <<"S","T","A","F","F"," ","C","L","A","I","M">>,
       <<"O","V","E","R","T","I","M","E">>,
       <<"O","T"," ","C","L","A","I","M">> >>

UTILITY_KEYWORDS ==
    << <<"T","N","B">>,
       <<"T","E","N","A","G","A"," ","N","A","S","I","O","N","A","L">>,
       <<"T","E","N","A","G","A">>,
       <<"S","Y","A","B","A","S">>,
       <<"A","I","R"," ","S","E","L","A","N","G","O","R">>,
       <<"P","E","N","G","U","R","U","S","A","N"," ","A","I","R">>,
       <<"S","A","I","N","S">>,
       <<"S","A","J">>,
       <<"S","A","J","H">>,
       <<"T","E","L","E","K","O","M">>,
       <<"T","M"," ","N","E","T">>,
       <<"U","N","I","F","I">>,
       <<"S","T","R","E","A","M","Y","X">>,
       <<"M","A","X","I","S">>,
       <<"C","E","L","C","O","M">>,
       <<"D","I","G","I">>,
       <<"U"," ","M","O","B","I","L","E">>,
       <<"Y","E","S">>,
       <<"A","S","T","R","O">>,
       <<"T","I","M","E"," ","D","O","T","C","O","M">>,
       <<"T","I","M","E"," ","F","I","B","R","E">>,
       <<"I","W","K">>,
       <<"I","N","D","A","H"," ","W","A","T","E","R">> >>

BANK_CHARGE_KEYWORDS ==
    << <<"S","E","R","V","I","C","E"," ","C","H","A","R","G","E">>,
       <<"B","A","N","K"," ","C","H","A","R","G","E">>,
       <<"A","U","T","O","P","A","Y"," ","C","H","A","R","G","E","S">>,
       <<"F","E","E">>,
       <<"C","O","M","M","I","S","S","I","O","N">>,
       <<"S","T","A","M","P"," ","D","U","T","Y">>,
       <<"D","U","T","I"," ","S","E","T","E","M">>,
       <<"C","O","T">>,
       <<"H","A","N","D","L","I","N","G"," ","C","H","A","R","G","E">>,
       <<"P","R","O","C","E","S","S","I","N","G"," ","F","E","E">>,
       <<"A","D","M"," ","C","H","A","R","G","E">>,
       <<"A","D","M","I","N"," ","F","E","E">> >>

DISBURSEMENT_KEYWORDS ==
    << <<"D","I","S","B">>,
       <<"D","I","S","B","U","R","S","E","M","E","N","T">>,
       <<"L","O","A","N"," ","C","R">>,
       <<"F","I","N","A","N","C","I","N","G"," ","C","R">>,
       <<"D","R","A","W","D","O","W","N">>,
       <<"F","A","C","I","L","I","T","Y"," ","R","E","L","E","A","S","E">> >>

INTEREST_KEYWORDS ==
    << <<"P","R","O","F","I","T"," ","P","A","I","D">>,
       <<"P","R","O","F","I","T","/","H","I","B","A","H">>,
       <<"H","I","B","A","H">>,
       <<"I","N","T","E","R","E","S","T">>,
       <<"D","I","V","I","D","E","N","D">>,
       <<"F","A","E","D","A","H">>,
       <<"B","O","N","U","S"," ","I","N","T","E","R","E","S","T">> >>

REVERSAL_KEYWORDS ==
    << <<"R","E","V","E","R","S","A","L">>,
       <<"R","E","V","E","R","S","E">>,
       <<"R","E","V">>,
       <<"C","A","N","C","E","L","L","E","D">>,
       <<"V","O","I","D">>,
       <<"R","E","T","U","R","N","E","D">>,
       <<"R","E","J","E","C","T","E","D">> >>

DEFAULT_PROVIDED_BANK_CODES ==
    { <<"B","M","M","B">>,
      <<"C","I","M","B">>,
      <<"C","I","M","B","1","4">>,
      <<"C","I","M","B","9">>,
      <<"C","I","M","B","K","L">>,
      <<"C","I","M","B","S","E","K">>,
      <<"H","L","B">>,
      <<"H","L","B","B">>,
      <<"M","U","A","M","A","L","A","T">> }

DEFAULT_COMPANY_KEYWORDS ==
    << <<"M","T","C"," ","E","N","G","I","N","E","E","R","I","N","G">>,
       <<"M","T","C"," ","E","N","G","I","N">> >>

DEFAULT_RELATED_PARTIES ==
    << [name |-> <<"M","T","C"," ","F","L","O","A","T","I","N","G"," ","S","O","L","U","T","I","O","N","S"," ","S","D","N"," ","B","H","D">>,
        relationship |-> "Sister Company"],
       [name |-> <<"M","T","C"," ","E","N","E","R","G","Y"," ","S","D","N"," ","B","H","D">>,
        relationship |-> "Sister Company"] >>

stop_words ==
    { <<"S","D","N">>,
      <<"B","H","D">>,
      <<"P","L","T">>,
      <<"B","E","R","H","A","D">>,
      <<"E","N","T","E","R","P","R","I","S","E">>,
      <<"T","R","A","D","I","N","G">>,
      <<"S","E","R","V","I","C","E","S">>,
      <<"S","O","L","U","T","I","O","N","S">>,
      <<"H","O","L","D","I","N","G","S">>,
      <<"G","R","O","U","P">>,
      <<"A","N","D">>,
      <<"&">> }

PURPOSE_KEYWORDS ==
    << <<"S","T","A","T","U","T","O","R","Y">>,
       <<"S","A","L","A","R","Y">>,
       <<"L","O","A","N">>,
       <<"P","A","Y","M","E","N","T">>,
       <<"A","D","V","A","N","C","E">>,
       <<"I","N","T","E","R","B","A","N","K">> >>

\* Thresholds written as literals in the code.
ROUND_FIGURE_THRESHOLD == 10000

ROUND_FIGURE_WARNING_PCT == 40

AMOUNT_TOLERANCE == 1

DAY_TOLERANCE == 1

LARGE_TRANSFER == 50000

BANK_CHARGE_CEILING == 1000

(***************************************************************************)
(* Dates: datetime.strptime(s, '%Y-%m-%d') and the day difference          *)
(***************************************************************************)

\* s.split('-')
RECURSIVE SplitDash(_, _, _)
SplitDash(s, i, cur) ==
    IF i > Len(s) THEN <<cur>>
    ELSE IF s[i] = "-" THEN <<cur>> \o SplitDash(s, i + 1, <<>>)
    ELSE SplitDash(s, i + 1, Append(cur, s[i]))

AllDigits(s) == \A i \in 1..Len(s) : s[i] \in Digits

RECURSIVE ToInt(_)
ToInt(s) == IF s = <<>> THEN 0 ELSE 10 * ToInt(SubSeq(s, 1, Len(s) - 1)) + DigitVal[s[Len(s)]]

IsLeap(y) == (y % 4 = 0 /\ y % 100 # 0) \/ y % 400 = 0

DaysInMonth(y, m) ==
    IF m = 2 THEN (IF IsLeap(y) THEN 29 ELSE 28)
    ELSE IF m \in {4, 6, 9, 11} THEN 30 ELSE 31

RECURSIVE DaysBeforeMonth(_, _)
DaysBeforeMonth(y, m) == IF m = 1 THEN 0 ELSE DaysBeforeMonth(y, m - 1) + DaysInMonth(y, m - 1)

\* date.toordinal(): days since 0001-01-01, counting it as day 1.
ToOrdinal(y, m, d) ==
    365 * (y - 1) + ((y - 1) \div 4) - ((y - 1) \div 100) + ((y - 1) \div 400)
        + DaysBeforeMonth(y, m) + d

\* Whether strptime(s, '%Y-%m-%d') returns: four year digits, month 1-12 and
\* day in one or two digits, the day within the month.
Parses(s) ==
    LET f == SplitDash(s, 1, <<>>) IN
    /\ Len(f) = 3
    /\ Len(f[1]) = 4 /\ AllDigits(f[1])
    /\ Len(f[2]) \in {1, 2} /\ AllDigits(f[2])
    /\ Len(f[3]) \in {1, 2} /\ AllDigits(f[3])
    /\ ToInt(f[2]) \in 1..12
    /\ ToInt(f[3]) \in 1..DaysInMonth(ToInt(f[1]), ToInt(f[2]))

\* The ordinal of the parsed date (for a string that parses).
ParseDate(s) ==
    LET f == SplitDash(s, 1, <<>>) IN ToOrdinal(ToInt(f[1]), ToInt(f[2]), ToInt(f[3]))

Abs(x) == IF x < 0 THEN -x ELSE x


(***************************************************************************)
(* Helper functions of the engine (lines 182-310)                          *)
(***************************************************************************)

\* has_inter_account_marker(desc)
has_inter_account_marker(desc) == AnyIn(INTER_ACCOUNT_MARKERS, Upper(desc))

\* has_company_name(desc): reads the global COMPANY_KEYWORDS
has_company_name(desc, company_keywords) == AnyIn(company_keywords, Upper(desc))

\* get_missing_bank_code(desc, missing_codes): the first code, in the iteration
\* order of the set missing_codes, that occurs in the description.  None is the
\* empty string here (both are false in `if missing_bank and ...`).  `order` is
\* the iteration order of the set, a sequence without repetition.
get_missing_bank_code(desc, order) ==
    LET u == Upper(desc)
        hits == { i \in 1..Len(order) : Contains(order[i], u) }
    IN  IF hits = {} THEN <<>>
        ELSE order[CHOOSE i \in hits : \A j \in hits : i <= j]

\* is_round_figure(amount)
is_round_figure(amount) == amount >= ROUND_FIGURE_THRESHOLD /\ amount % 1000 = 0

\* The words generate_related_party_patterns keeps: not a stop word, longer than 2.
SignificantWords(name_upper) ==
    LET ws == Split(name_upper) IN
    SelectSeq(ws, LAMBDA w : w \notin stop_words /\ Len(w) > 2)

\* generate_related_party_patterns(related_parties)
generate_related_party_patterns(related_parties) ==
    [ i \in 1..Len(related_parties) |->
        LET name_upper == Upper(related_parties[i].name)
            words == SignificantWords(name_upper)
        IN  [ name |-> related_parties[i].name,
              relationship |-> related_parties[i].relationship,
              patterns |->
                  <<name_upper>>
                  \o (IF Len(words) >= 2 THEN <<JoinBlank(SubSeq(words, 1, 2))>> ELSE <<>>)
                  \o (IF Len(words) >= 1 THEN <<words[1]>> ELSE <<>>) ] ]

\* The purpose note check_related_party extracts: 30 characters from the first
\* occurrence of the first keyword of the list that occurs, stripped.
PurposeNote(desc_upper) ==
    LET hits == { k \in 1..Len(PURPOSE_KEYWORDS) : Contains(PURPOSE_KEYWORDS[k], desc_upper) }
    IN  IF hits = {} THEN <<>>
        ELSE LET k == CHOOSE x \in hits : \A y \in hits : x <= y
                 idx == Find(PURPOSE_KEYWORDS[k], desc_upper)
                 last == IF idx + 30 < Len(desc_upper) THEN idx + 30 ELSE Len(desc_upper)
             IN  Strip(SubSeq(desc_upper, idx + 1, last))

\* check_related_party(desc, rp_patterns): the first party, in list order, one of
\* whose patterns occurs in the description; hit is FALSE for None.
check_related_party(desc, rp_patterns) ==
    LET desc_upper == Upper(desc)
        hits == { i \in 1..Len(rp_patterns) : AnyIn(rp_patterns[i].patterns, desc_upper) }
    IN  IF hits = {}
        THEN [ hit |-> FALSE, name |-> <<>>, relationship |-> "", purpose_note |-> <<>> ]
        ELSE LET i == CHOOSE x \in hits : \A y \in hits : x <= y
             IN  [ hit |-> TRUE,
                   name |-> rp_patterns[i].name,
                   relationship |-> rp_patterns[i].relationship,
                   purpose_note |-> PurposeNote(desc_upper) ]

\* check_statutory(desc): the first statutory type, in dict order, one of whose
\* keywords occurs in the description; "None" if none.
check_statutory(desc) ==
    LET desc_upper == Upper(desc)
        hits == { i \in 1..Len(STATUTORY_KEYWORDS) :
                    AnyIn(STATUTORY_KEYWORDS[i].keywords, desc_upper) }
    IN  IF hits = {} THEN "None"
        ELSE STATUTORY_KEYWORDS[CHOOSE x \in hits : \A y \in hits : x <= y].type

\* The codes of BANK_CODES that occur in a description, in dict order (the inner
\* loop of step 2 before the test against PROVIDED_BANK_CODES).
CodesIn(desc) ==
    LET desc_upper == Upper(desc) IN
    SelectSeq([ i \in 1..Len(BANK_CODES) |-> BANK_CODES[i] ],
              LAMBDA bc : Contains(bc.code, desc_upper))


(***************************************************************************)
(* Generic list operations                                                 *)
(***************************************************************************)

Range(s) == { s[i] : i \in 1..Len(s) }

RECURSIVE SumSeq(_)
SumSeq(s) == IF s = <<>> THEN 0 ELSE s[1] + SumSeq(Tail(s))

\* sorted(s, key=...) / list.sort(key=...): a stable sort.  Less(a, b) is
\* key(a) < key(b); elements with equal keys keep their order in s.
SortBy(s, Less(_, _)) ==
    LET n == Len(s)
        before(j, i) == \/ Less(s[j], s[i])
                        \/ (~Less(s[i], s[j]) /\ j < i)
        rank(i) == Cardinality({ j \in 1..n : j # i /\ before(j, i) }) + 1
    IN  [ p \in 1..n |-> s[CHOOSE i \in 1..n : rank(i) = p] ]

\* sorted(set of strings)
SortStrings(S) ==
    LET n == Cardinality(S)
    IN  [ p \in 1..n |->
            CHOOSE x \in S : Cardinality({ y \in S : StrLess(y, x) }) = p - 1 ]

\* The permutations of a finite set, as sequences: the orders in which a Python
\* set of strings may be iterated (the order follows the per-process string hash).
IterationOrders(S) ==
    LET n == Cardinality(S)
    IN  { f \in [1..n -> S] : \A i, j \in 1..n : i # j => f[i] # f[j] }

(***************************************************************************)
(* Run configuration and input statements                                  *)
(***************************************************************************)

\* Bounds of the model.
MaxPool == 3

MaxDegraded == 2

MaxScenario == 2

MaxSeries == 8

\* The account ids of a run, the keys of ACCOUNT_INFO and FILE_PATHS.
RunAccounts == { "A", "B" }

PathOf(acc) == IF acc = "A" THEN "A.json" ELSE IF acc = "B" THEN "B.json" ELSE "C.json"

DEFAULT_COMPANY_NAME == "MTC ENGINEERING SDN BHD"

\* The bank each statement of a run is from, as the account table of the run
\* names it (app.py line 727: the bank the statement's entries carry).
RunBankName(a) == IF a = "A" THEN <<"M","a","y","b","a","n","k">> ELSE <<"C","I","M","B">>

\* The six module globals EnginePatch patches, as a run over RunAccounts has them.
RunGlobals ==
    [ COMPANY_NAME |-> DEFAULT_COMPANY_NAME,
      COMPANY_KEYWORDS |-> DEFAULT_COMPANY_KEYWORDS,
      RELATED_PARTIES |-> DEFAULT_RELATED_PARTIES,
      ACCOUNT_INFO |-> [ a \in RunAccounts |->
                          [ bank_name |-> RunBankName(a), classification |-> "SECONDARY" ] ],
      FILE_PATHS |-> [ a \in RunAccounts |-> PathOf(a) ],
      PROVIDED_BANK_CODES |-> DEFAULT_PROVIDED_BANK_CODES ]

\* The transactions the statements of a run are drawn from: the account whose
\* statement holds the entry, and the entry as the statement JSON gives it.
\* Entries combined freely:
FreeItems ==
    << [account |-> "B", date |-> <<"2","0","2","5","-","0","2","-","2","8">>,
        description |-> <<"I","T","B"," ","T","R","F">>,
        debit |-> 0, credit |-> 10000, balance |-> 10000],
       [account |-> "A", date |-> <<"2","0","2","5","-","0","3","-","0","1">>,
        description |-> <<"i","t","b"," ","t","r","f"," ","a","m","b","a","n","k">>,
        debit |-> 10001, credit |-> 0, balance |-> 5000],
       [account |-> "A", date |-> <<"2","0","2","5","-","0","3","-","0","1">>,
        description |-> <<"S","A","L","E","S">>,
        debit |-> 10000, credit |-> 20000, balance |-> 15000],
       [account |-> "A", date |-> <<"2","0","2","5","-","0","3","-","0","2">>,
        description |-> <<"O","W","N"," ","A","C","C">>,
        debit |-> 10000, credit |-> 0, balance |-> 5000],
       [account |-> "B", date |-> <<"2","0","2","5","-","0","1","-","1","5">>,
        description |-> <<"E","P","F"," ","C","O","N","T","R","I","B","U","T","I","O","N"," ","J","A","N">>,
        debit |-> 500, credit |-> 0, balance |-> 9500],
       [account |-> "A", date |-> <<"2","0","2","5","-","1","3","-","4","5">>,
        description |-> <<"P","A","Y","M","E","N","T"," ","R","E","C","E","I","V","E","D">>,
        debit |-> 0, credit |-> 500, balance |-> 5500],
       [account |-> "B", date |-> <<"2","0","2","5","-","0","3","-","0","2">>,
        description |-> <<>>,
        debit |-> 0, credit |-> 50, balance |-> 9550],
       [account |-> "A", date |-> <<"2","0","2","5","-","0","3","-","3","1">>,
        description |-> <<"C","L","O","S","I","N","G"," ","B","A","L","A","N","C","E">>,
        debit |-> 0, credit |-> 0, balance |-> 5000],
       [account |-> "B", date |-> <<"2","0","2","5","-","0","3","-","0","1">>,
        description |-> <<"P","A","Y","M","E","N","T">>,
        debit |-> 0, credit |-> 50000, balance |-> 60000],
       [account |-> "A", date |-> <<"2","0","2","5","-","0","3","-","0","1">>,
        description |-> <<"M","T","C"," ","E","N","E","R","G","Y"," ","S","D","N"," ","B","H","D">>,
        debit |-> 50000, credit |-> 0, balance |-> 1000] >>

\* Entries of the worked scenarios: a transfer pair without marker, bank charges
\* around the ceiling, credits around the round-figure threshold, balances at
\* the volatility bands, an entry with the sort key of FreeItems[7].
ScenarioItems ==
    << [account |-> "A", date |-> <<"2","0","2","5","-","0","3","-","0","1">>,
        description |-> <<"T","R","A","N","S","F","E","R"," ","T","O"," ","B">>,
        debit |-> 0, credit |-> 10000, balance |-> 13000],
       [account |-> "B", date |-> <<"2","0","2","5","-","0","3","-","0","2">>,
        description |-> <<"T","R","A","N","S","F","E","R"," ","F","R","O","M"," ","A">>,
        debit |-> 10000, credit |-> 0, balance |-> 0],
       [account |-> "A", date |-> <<"2","0","2","5","-","0","2","-","1","0">>,
        description |-> <<"B","A","N","K"," ","S","E","R","V","I","C","E"," ","C","H","A","R","G","E">>,
        debit |-> 50, credit |-> 0, balance |-> 3000],
       [account |-> "A", date |-> <<"2","0","2","5","-","0","2","-","1","1">>,
        description |-> <<"B","A","N","K"," ","S","E","R","V","I","C","E"," ","C","H","A","R","G","E">>,
        debit |-> 5000, credit |-> 0, balance |-> 5000],
       [account |-> "B", date |-> <<"2","0","2","5","-","0","2","-","1","2">>,
        description |-> <<"C","O","T">>,
        debit |-> 1000, credit |-> 0, balance |-> -5000],
       [account |-> "B", date |-> <<"2","0","2","5","-","0","2","-","1","3">>,
        description |-> <<"B","A","N","K"," ","C","H","A","R","G","E">>,
        debit |-> 999, credit |-> 0, balance |-> -1000],
       [account |-> "B", date |-> <<"2","0","2","5","-","0","3","-","0","5">>,
        description |-> <<"L","O","A","N"," ","D","I","S","B","U","R","S","E","M","E","N","T">>,
        debit |-> 0, credit |-> 20000, balance |-> 20000],
       [account |-> "A", date |-> <<"2","0","2","5","-","0","3","-","0","6">>,
        description |-> <<"I","N","V","O","I","C","E"," ","1","2">>,
        debit |-> 0, credit |-> 10500, balance |-> 10500],
       [account |-> "B", date |-> <<"2","0","2","5","-","0","3","-","0","7">>,
        description |-> <<"C","A","S","H"," ","D","E","P","O","S","I","T">>,
        debit |-> 0, credit |-> 9000, balance |-> 9000],
       [account |-> "A", date |-> <<"2","0","2","5","-","0","3","-","0","8">>,
        description |-> <<"C","U","S","T","O","M","E","R"," ","P","A","Y","M","E","N","T">>,
        debit |-> 0, credit |-> 20000, balance |-> 33000],
       [account |-> "A", date |-> <<"2","0","2","5","-","0","3","-","0","2">>,
        description |-> <<>>,
        debit |-> 50, credit |-> 0, balance |-> 7000] >>

\* A run of monthly payments, statutory and other.
SeriesItems ==
    << [account |-> "B", date |-> <<"2","0","2","5","-","0","1","-","1","5">>,
        description |-> <<"E","P","F"," ","C","O","N","T","R","I","B","U","T","I","O","N"," ","J","A","N">>,
        debit |-> 500, credit |-> 0, balance |-> 9500],
       [account |-> "B", date |-> <<"2","0","2","5","-","0","2","-","1","5">>,
        description |-> <<"E","P","F"," ","C","O","N","T","R","I","B","U","T","I","O","N"," ","F","E","B">>,
        debit |-> 500, credit |-> 0, balance |-> 9000],
       [account |-> "B", date |-> <<"2","0","2","5","-","0","3","-","1","5">>,
        description |-> <<"K","W","S","P"," ","M","A","R">>,
        debit |-> 500, credit |-> 0, balance |-> 8500],
       [account |-> "A", date |-> <<"2","0","2","5","-","0","4","-","1","5">>,
        description |-> <<"E","P","F"," ","A","P","R">>,
        debit |-> 500, credit |-> 0, balance |-> 8000],
       [account |-> "B", date |-> <<"2","0","2","5","-","0","5","-","1","5">>,
        description |-> <<"E","M","P","L","O","Y","E","E","S"," ","P","R","O","V","I","D","E","N","T"," ","M","A","Y">>,
        debit |-> 500, credit |-> 0, balance |-> 7500],
       [account |-> "B", date |-> <<"2","0","2","5","-","0","6","-","1","5">>,
        description |-> <<"S","O","C","S","O"," ","J","U","N">>,
        debit |-> 100, credit |-> 0, balance |-> 7400],
       [account |-> "A", date |-> <<"2","0","2","5","-","0","7","-","1","5">>,
        description |-> <<"P","C","B"," ","J","U","L">>,
        debit |-> 300, credit |-> 0, balance |-> 7100],
       [account |-> "B", date |-> <<"2","0","2","5","-","0","8","-","1","5">>,
        description |-> <<"O","F","F","I","C","E"," ","R","E","N","T"," ","A","U","G">>,
        debit |-> 2000, credit |-> 0, balance |-> 5100],
       [account |-> "B", date |-> <<"2","0","2","5","-","0","9","-","1","5">>,
        description |-> <<"H","R","D","F"," ","L","E","V","Y"," ","S","E","P">>,
        debit |-> 100, credit |-> 0, balance |-> 5000] >>

\* Two statutory payments a month over four months.
PairedSeriesItems ==
    << [account |-> "B", date |-> <<"2","0","2","5","-","0","1","-","2","0">>,
        description |-> <<"E","P","F"," ","J","A","N">>,
        debit |-> 500, credit |-> 0, balance |-> 9500],
       [account |-> "A", date |-> <<"2","0","2","5","-","0","1","-","2","1">>,
        description |-> <<"S","O","C","S","O"," ","J","A","N">>,
        debit |-> 100, credit |-> 0, balance |-> 9400],
       [account |-> "B", date |-> <<"2","0","2","5","-","0","2","-","2","0">>,
        description |-> <<"E","P","F"," ","F","E","B">>,
        debit |-> 500, credit |-> 0, balance |-> 9000],
       [account |-> "A", date |-> <<"2","0","2","5","-","0","2","-","2","1">>,
        description |-> <<"S","O","C","S","O"," ","F","E","B">>,
        debit |-> 100, credit |-> 0, balance |-> 8900],
       [account |-> "B", date |-> <<"2","0","2","5","-","0","3","-","2","0">>,
        description |-> <<"E","P","F"," ","M","A","R">>,
        debit |-> 500, credit |-> 0, balance |-> 8500],
       [account |-> "A", date |-> <<"2","0","2","5","-","0","3","-","2","1">>,
        description |-> <<"S","O","C","S","O"," ","M","A","R">>,
        debit |-> 100, credit |-> 0, balance |-> 8400],
       [account |-> "B", date |-> <<"2","0","2","5","-","0","4","-","2","0">>,
        description |-> <<"E","P","F"," ","A","P","R">>,
        debit |-> 500, credit |-> 0, balance |-> 8000],
       [account |-> "A", date |-> <<"2","0","2","5","-","0","4","-","2","1">>,
        description |-> <<"S","O","C","S","O"," ","A","P","R">>,
        debit |-> 100, credit |-> 0, balance |-> 7900] >>

\* Two credits, four debits and an entry with a debit and a credit, of one
\* amount within the tolerances of the matcher, one debit dated 30 February.
MatcherItems ==
    << [account |-> "B", date |-> <<"2","0","2","5","-","0","4","-","1","0">>,
        description |-> <<"I","N","T","E","R","B","A","N","K"," ","I","N">>,
        debit |-> 0, credit |-> 7000, balance |-> 7000],
       [account |-> "B", date |-> <<"2","0","2","5","-","0","4","-","1","0">>,
        description |-> <<"F","U","N","D","S"," ","I","N">>,
        debit |-> 0, credit |-> 7001, balance |-> 14001],
       [account |-> "A", date |-> <<"2","0","2","5","-","0","2","-","3","0">>,
        description |-> <<"P","A","Y","M","E","N","T"," ","O","U","T">>,
        debit |-> 7000, credit |-> 0, balance |-> 1000],
       [account |-> "A", date |-> <<"2","0","2","5","-","0","4","-","0","9">>,
        description |-> <<"O","W","N"," ","A","C","C"," ","T","R","A","N","S","F","E","R">>,
        debit |-> 7000, credit |-> 0, balance |-> 3000],
       [account |-> "A", date |-> <<"2","0","2","5","-","0","4","-","1","1">>,
        description |-> <<"S","U","P","P","L","I","E","R"," ","X">>,
        debit |-> 7001, credit |-> 0, balance |-> 2000],
       [account |-> "B", date |-> <<"2","0","2","5","-","0","4","-","1","0">>,
        description |-> <<"I","T","B"," ","T","R","F"," ","O","U","T">>,
        debit |-> 7000, credit |-> 0, balance |-> 6000],
       [account |-> "A", date |-> <<"2","0","2","5","-","0","4","-","1","0">>,
        description |-> <<"T","W","O"," ","W","A","Y">>,
        debit |-> 7000, credit |-> 7000, balance |-> 5000] >>

\* Credits whose descriptions satisfy the tests of several credit stages, of one
\* or of none.
PriorityCredits ==
    << [account |-> "B", date |-> <<"2","0","2","5","-","0","5","-","0","2">>,
        description |-> <<"I","T","B"," ","T","R","F"," ","M","B","B"," ","M","T","C">>,
        debit |-> 0, credit |-> 800, balance |-> 800],
       [account |-> "A", date |-> <<"2","0","2","5","-","0","5","-","0","3">>,
        description |-> <<"M","T","C"," ","D","I","S","B">>,
        debit |-> 0, credit |-> 810, balance |-> 810],
       [account |-> "B", date |-> <<"2","0","2","5","-","0","5","-","0","4">>,
        description |-> <<"L","O","A","N"," ","C","R"," ","H","I","B","A","H"," ","R","E","V">>,
        debit |-> 0, credit |-> 820, balance |-> 1620],
       [account |-> "A", date |-> <<"2","0","2","5","-","0","5","-","0","5">>,
        description |-> <<"H","I","B","A","H"," ","V","O","I","D">>,
        debit |-> 0, credit |-> 830, balance |-> 1640],
       [account |-> "B", date |-> <<"2","0","2","5","-","0","5","-","0","6">>,
        description |-> <<"R","E","V"," ","1","2">>,
        debit |-> 0, credit |-> 840, balance |-> 2460],
       [account |-> "A", date |-> <<"2","0","2","5","-","0","5","-","0","7">>,
        description |-> <<"I","N","V","O","I","C","E"," ","7">>,
        debit |-> 0, credit |-> 850, balance |-> 2490],
       [account |-> "B", date |-> <<"2","0","2","5","-","0","5","-","0","8">>,
        description |-> <<"M","B","B"," ","D","E","P","O","S","I","T">>,
        debit |-> 0, credit |-> 860, balance |-> 3320] >>

\* Debits whose descriptions satisfy the tests of several debit stages, of one
\* or of none.
PriorityDebits ==
    << [account |-> "A", date |-> <<"2","0","2","5","-","0","6","-","0","2">>,
        description |-> <<"I","T","B"," ","T","R","F"," ","M","B","B"," ","M","T","C">>,
        debit |-> 900, credit |-> 0, balance |-> 9100],
       [account |-> "B", date |-> <<"2","0","2","5","-","0","6","-","0","3">>,
        description |-> <<"M","T","C"," ","E","P","F">>,
        debit |-> 910, credit |-> 0, balance |-> 9090],
       [account |-> "A", date |-> <<"2","0","2","5","-","0","6","-","0","4">>,
        description |-> <<"O","W","N"," ","A","C","C"," ","R","H","B"," ","E","P","F">>,
        debit |-> 920, credit |-> 0, balance |-> 8180],
       [account |-> "B", date |-> <<"2","0","2","5","-","0","6","-","0","5">>,
        description |-> <<"E","P","F"," ","S","A","L","A","R","Y">>,
        debit |-> 930, credit |-> 0, balance |-> 8160],
       [account |-> "A", date |-> <<"2","0","2","5","-","0","6","-","0","6">>,
        description |-> <<"S","A","L","A","R","Y"," ","T","N","B"," ","F","E","E">>,
        debit |-> 940, credit |-> 0, balance |-> 7240],
       [account |-> "B", date |-> <<"2","0","2","5","-","0","6","-","0","7">>,
        description |-> <<"T","N","B"," ","F","E","E">>,
        debit |-> 950, credit |-> 0, balance |-> 7210],
       [account |-> "A", date |-> <<"2","0","2","5","-","0","6","-","0","8">>,
        description |-> <<"S","T","A","M","P"," ","D","U","T","Y">>,
        debit |-> 960, credit |-> 0, balance |-> 6280],
       [account |-> "B", date |-> <<"2","0","2","5","-","0","6","-","0","9">>,
        description |-> <<"R","E","N","T","A","L">>,
        debit |-> 970, credit |-> 0, balance |-> 6240] >>

\* Descriptions with bank codes of one and of two words, provided and not.
BankCodeItems ==
    << [account |-> "A", date |-> <<"2","0","2","5","-","0","7","-","0","2">>,
        description |-> <<"t","r","f"," ","b","a","n","k"," ","i","s","l","a","m">>,
        debit |-> 100, credit |-> 0, balance |-> 900],
       [account |-> "B", date |-> <<"2","0","2","5","-","0","7","-","0","3">>,
        description |-> <<"P","U","B","L","I","C"," ","B","A","N","K"," ","P","B","B">>,
        debit |-> 0, credit |-> 110, balance |-> 1110],
       [account |-> "A", date |-> <<"2","0","2","5","-","0","7","-","0","4">>,
        description |-> <<"C","I","M","B"," ","T","O"," ","P","B","B">>,
        debit |-> 120, credit |-> 0, balance |-> 780],
       [account |-> "B", date |-> <<"2","0","2","5","-","0","7","-","0","5">>,
        description |-> <<"H","L","B"," ","G","I","R","O">>,
        debit |-> 0, credit |-> 130, balance |-> 1240],
       [account |-> "B", date |-> <<"2","0","2","5","-","0","7","-","0","6">>,
        description |-> <<"I","N","T","E","R","B","A","N","K"," ","G","I","R","O">>,
        debit |-> 0, credit |-> 140, balance |-> 1380] >>

Catalogue ==
    FreeItems \o ScenarioItems \o SeriesItems \o PairedSeriesItems \o MatcherItems
        \o PriorityCredits \o PriorityDebits \o BankCodeItems

\* The freely combined entries are the first K of the catalogue.
K == Len(FreeItems)

\* The statement entry of a catalogue item (what the JSON of the account holds).
RawTxn(k) ==
    [ date |-> Catalogue[k].date, description |-> Catalogue[k].description,
      debit |-> Catalogue[k].debit, credit |-> Catalogue[k].credit,
      balance |-> Catalogue[k].balance ]

\* The sequences of distinct catalogue items of length at most n.
RECURSIVE Picks(_)
Picks(n) ==
    IF n = 0 THEN { <<>> }
    ELSE LET shorter == Picks(n - 1)
         IN  shorter \cup { Append(p, k) : p \in shorter, k \in 1..K }

DistinctPicks(n) == { p \in Picks(n) : \A i, j \in 1..Len(p) : i # j => p[i] # p[j] }

\* The sequences of distinct free or scenario items of length at most n.
RECURSIVE ScenarioPicks(_)
ScenarioPicks(n) ==
    IF n = 0 THEN { <<>> }
    ELSE LET shorter == ScenarioPicks(n - 1)
         IN  shorter \cup { Append(p, k) : p \in { q \in shorter : Len(q) = n - 1 },
                                           k \in 1..(K + Len(ScenarioItems)) }

\* The items of S in catalogue order.
RECURSIVE Ascending(_)
Ascending(S) ==
    IF S = {} THEN <<>>
    ELSE LET k == CHOOSE x \in S : \A y \in S : x <= y
         IN  <<k>> \o Ascending(S \ {k})

\* The selections of at most n items of the catalogue positions from + 1 ..
\* from + len, in catalogue order.
FamilyPicks(from, len, n) ==
    { Ascending(S) : S \in { T \in SUBSET ((from + 1)..(from + len)) : Cardinality(T) <= n } }

\* The selections of at most n items of one of the three series.
SeriesPicks(n) ==
    LET first == K + Len(ScenarioItems)
        second == first + Len(SeriesItems)
        third == second + Len(PairedSeriesItems)
    IN  FamilyPicks(first, Len(SeriesItems), n)
            \cup FamilyPicks(second, Len(PairedSeriesItems), n)
            \cup FamilyPicks(third, Len(MatcherItems), n)

\* The selections of at most n credits, of at most n debits, of the entries that
\* try the stage order, and of at most n of the entries with bank codes.
PriorityPicks(n) ==
    LET first == K + Len(ScenarioItems) + Len(SeriesItems) + Len(PairedSeriesItems)
                   + Len(MatcherItems)
        second == first + Len(PriorityCredits)
        third == second + Len(PriorityDebits)
    IN  FamilyPicks(first, Len(PriorityCredits), n)
            \cup FamilyPicks(second, Len(PriorityDebits), n)
            \cup FamilyPicks(third, Len(BankCodeItems), n)

\* The monthly_summary the normaliser delivers with a statement: one row per
\* month that has an entry with a well-formed date, months ascending, the totals
\* those validate_monthly_totals recomputes.
MonthsOf(txns) ==
    { Prefix(txns[i].date, 7) : i \in { j \in 1..Len(txns) : Parses(txns[j].date) } }

MonthRow(txns, month) ==
    LET in == SelectSeq(txns, LAMBDA t : Parses(t.date) /\ Prefix(t.date, 7) = month)
        bals == { in[i].balance : i \in 1..Len(in) }
        dr == SumSeq([ i \in 1..Len(in) |-> in[i].debit ])
        cr == SumSeq([ i \in 1..Len(in) |-> in[i].credit ])
    IN  [ month |-> month,
          transaction_count |-> Len(in),
          total_debit |-> dr,
          total_credit |-> cr,
          ending_balance |-> in[Len(in)].balance,
          highest_balance |-> CHOOSE b \in bals : \A c \in bals : c <= b,
          lowest_balance |-> CHOOSE b \in bals : \A c \in bals : b <= c,
          net_change |-> cr - dr ]

MonthlySummaryOf(txns) ==
    LET ms == SortStrings(MonthsOf(txns))
    IN  [ i \in 1..Len(ms) |-> MonthRow(txns, ms[i]) ]

\* How a run's input may deviate from the nominal one: which account files
\* exist, and whether monthly_summary is filled, an empty list, or no key at all.
Variants ==
    { [ present |-> RunAccounts, ms |-> "rows" ],
      [ present |-> RunAccounts, ms |-> "empty" ],
      [ present |-> RunAccounts, ms |-> "nokey" ],
      [ present |-> { "A" }, ms |-> "rows" ],
      [ present |-> {}, ms |-> "rows" ] }

Nominal == [ present |-> RunAccounts, ms |-> "rows" ]

\* The file of account acc: absent, or the statement JSON.
FileOf(acc, pick, v) ==
    LET mine == SelectSeq(pick, LAMBDA k : Catalogue[k].account = acc)
        txns == [ i \in 1..Len(mine) |-> RawTxn(mine[i]) ]
    IN  [ exists |-> acc \in v.present,
          transactions |-> IF acc \in v.present THEN txns ELSE <<>>,
          has_monthly_summary |-> acc \in v.present /\ v.ms # "nokey",
          monthly_summary |->
              IF acc \in v.present /\ v.ms = "rows" THEN MonthlySummaryOf(txns) ELSE <<>>,
          total_transactions |-> IF acc \in v.present THEN Len(txns) ELSE 0 ]

FileSystem(pick, v) == [ p \in { PathOf(a) : a \in RunAccounts } |->
                           FileOf(CHOOSE a \in RunAccounts : PathOf(a) = p, pick, v) ]

\* The inputs of the model: every nominal input of up to MaxPool free entries,
\* every deviating one of up to MaxDegraded entries, every nominal one of up to
\* MaxScenario free or scenario entries, of up to MaxSeries series entries and
\* of up to MaxPool entries that try the stage order or hold bank codes.
Inputs ==
    { FileSystem(p, Nominal) : p \in DistinctPicks(MaxPool) }
    \cup { FileSystem(p, v) : p \in DistinctPicks(MaxDegraded), v \in Variants }
    \cup { FileSystem(p, Nominal) :
             p \in { q \in ScenarioPicks(MaxScenario) :
                       \A i, j \in 1..Len(q) : i # j => q[i] # q[j] } }
    \cup { FileSystem(p, Nominal) : p \in SeriesPicks(MaxSeries) }
    \cup { FileSystem(p, Nominal) : p \in PriorityPicks(MaxPool) }


(***************************************************************************)
(* State                                                                   *)
(***************************************************************************)

VARIABLES
    engine,                \* the module globals of bank_analysis_v5_2_1
    files,                 \* path -> statement file (the files load_data opens)
    pc,                    \* where analyze() is
    error,                 \* the exception analyze() raised, "" if none
    data,                  \* account id -> loaded statement
    all_transactions,      \* the pool, position i holding sorted_idx i - 1
    missing_accounts,      \* "CODE (Name)" -> number of descriptions with CODE
    missing_bank_codes,    \* set of first words of the keys of missing_accounts
    set_order,             \* the order in which missing_bank_codes iterates
    credits_sorted,        \* sorted_idx of the credits, in matching order
    debits_sorted,         \* sorted_idx of the debits, in matching order
    used_indices,          \* the consumed set
    ci,                    \* matcher: position in credits_sorted
    lists,                 \* the category lists of step 3
    statutory_by_type,     \* statutory type -> months, one entry per payment
    totals,                \* step 6
    accounts,              \* step 8
    result,                \* the report analyze() returns
    sess,                  \* app.py: session -> script run
    held,                  \* app.py: the Lock objects that are held
    overlapped             \* history: some __enter__ ran inside another run's block

engineVars == << engine, files >>

runVars == << pc, error, data, all_transactions, missing_accounts, missing_bank_codes,
              set_order, credits_sorted, debits_sorted, used_indices, ci, lists,
              statutory_by_type, totals, accounts, result >>

appVars == << sess, held, overlapped >>

vars == << engine, files, pc, error, data, all_transactions, missing_accounts,
           missing_bank_codes, set_order, credits_sorted, debits_sorted, used_indices,
           ci, lists, statutory_by_type, totals, accounts, result, sess, held,
           overlapped >>

Categories ==
    { "INTER_ACCOUNT_TRANSFER", "INTER_ACCOUNT_TRANSFER_UNVERIFIED", "RELATED_PARTY",
      "LOAN_DISBURSEMENT", "INTEREST_PROFIT_DIVIDEND", "REVERSAL",
      "GENUINE_SALES_COLLECTIONS", "STATUTORY_PAYMENT", "SALARY_WAGES", "UTILITIES",
      "BANK_CHARGES", "SUPPLIER_VENDOR_PAYMENTS" }

EmptyLists ==
    [ matched_transfers |-> <<>>,
      unverified_credit_transfers |-> <<>>,
      unverified_debit_transfers |-> <<>>,
      related_party_credits |-> <<>>,
      related_party_debits |-> <<>>,
      loan_disbursements |-> <<>>,
      interest_credits |-> <<>>,
      reversals |-> <<>>,
      genuine_credits |-> <<>>,
      statutory_payments |-> <<>>,
      salary_wages |-> <<>>,
      utilities |-> <<>>,
      bank_charges |-> <<>>,
      supplier_payments |-> <<>> ]

StatTypes == { STATUTORY_KEYWORDS[i].type : i \in 1..Len(STATUTORY_KEYWORDS) }

NoTotals ==
    [ total_credits |-> 0, total_debits |-> 0,
      matched_credit_amount |-> 0, unverified_credit_amount |-> 0,
      rp_credit_amount |-> 0, loan_disb_amount |-> 0, interest_amount |-> 0,
      reversal_amount |-> 0, total_credit_exclusions |-> 0,
      matched_debit_amount |-> 0, unverified_debit_amount |-> 0,
      rp_debit_amount |-> 0, total_debit_exclusions |-> 0,
      net_credits |-> 0, net_debits |-> 0 ]

NoResult == [ returned |-> FALSE ]

\* The locals of analyze() before its first statement.
RunInit ==
    /\ pc = "load"
    /\ error = ""
    /\ data = << >>
    /\ all_transactions = << >>
    /\ missing_accounts = << >>
    /\ missing_bank_codes = {}
    /\ set_order = << >>
    /\ credits_sorted = << >>
    /\ debits_sorted = << >>
    /\ used_indices = {}
    /\ ci = 1
    /\ lists = EmptyLists
    /\ statutory_by_type = [ t \in StatTypes |-> << >> ]
    /\ totals = NoTotals
    /\ accounts = << >>
    /\ result = NoResult

AppIdle ==
    /\ sess = << >>
    /\ held = {}
    /\ overlapped = FALSE

Init ==
    /\ engine = RunGlobals
    /\ files \in Inputs
    /\ RunInit
    /\ AppIdle

(***************************************************************************)
(* analyze(): load_data and step 1, the transaction pool                   *)
(***************************************************************************)

\* load_data(): the statements of the keys of FILE_PATHS that are keys of
\* ACCOUNT_INFO and whose file exists.
load_data ==
    LET keys == { k \in DOMAIN engine.FILE_PATHS :
                    /\ k \in DOMAIN engine.ACCOUNT_INFO
                    /\ files[engine.FILE_PATHS[k]].exists }
    IN  [ k \in keys |-> files[engine.FILE_PATHS[k]] ]

\* sorted(ACCOUNT_INFO.keys()); account ids are single characters here.
SortedAccountIds ==
    SortStrings({ <<a>> : a \in DOMAIN engine.ACCOUNT_INFO })

\* The entries of the loaded statements in ingestion order (accounts ascending,
\* then statement order), zero-amount entries skipped, each with its account.
RECURSIVE Ingest(_, _, _)
Ingest(d, accs, i) ==
    IF i > Len(accs) THEN <<>>
    ELSE LET acc == accs[i][1]
             own == IF acc \in DOMAIN d
                    THEN SelectSeq(d[acc].transactions,
                                   LAMBDA t : ~(t.credit = 0 /\ t.debit = 0))
                    ELSE <<>>
         IN  [ j \in 1..Len(own) |-> [ account_id |-> acc, txn |-> own[j] ] ]
             \o Ingest(d, accs, i + 1)

TransactionKeyLess_AmountAscending(a, b) ==
    LET amtA == a.credit + a.debit
        amtB == b.credit + b.debit
    IN  \/ StrLess(a.date, b.date)
        \/ /\ a.date = b.date
           /\ \/ amtA < amtB
              \/ (amtA = amtB /\ StrLess(a.description, b.description))

\* create_transaction_key(a) < create_transaction_key(b)
TransactionKeyLess(a, b) ==
    LET amtA == a.credit + a.debit
        amtB == b.credit + b.debit
    IN  \/ StrLess(a.date, b.date)
        \/ /\ a.date = b.date
           /\ \/ -amtA < -amtB
              \/ (amtA = amtB /\ StrLess(a.description, b.description))

\* Step 1: the pool, sorted and re-indexed.
BuildPoolOf(d) ==
    LET raw == Ingest(d, SortedAccountIds, 1)
        recs == [ i \in 1..Len(raw) |->
                    [ idx |-> i - 1,
                      account_id |-> raw[i].account_id,
                      date |-> raw[i].txn.date,
                      description |-> raw[i].txn.description,
                      debit |-> raw[i].txn.debit,
                      credit |-> raw[i].txn.credit,
                      balance |-> raw[i].txn.balance,
                      category |-> "None",
                      exclude_from_turnover |-> FALSE,
                      is_related_party |-> FALSE,
                      related_party_name |-> <<>>,
                      related_party_relationship |-> "",
                      purpose_note |-> <<>> ] ]
        sorted == SortBy(recs, TransactionKeyLess)
    IN  [ i \in 1..Len(sorted) |-> sorted[i] @@ [ sorted_idx |-> i - 1 ] ]

\* analyze(), lines 326-328: load, or raise when nothing was loaded.
LoadData ==
    /\ pc = "load"
    /\ data' = load_data
    /\ IF DOMAIN load_data = {}
       THEN pc' = "failed" /\ error' = "ValueError: No data files loaded"
       ELSE pc' = "pool" /\ error' = error
    /\ UNCHANGED << engineVars, all_transactions, missing_accounts, missing_bank_codes,
                    set_order, credits_sorted, debits_sorted, used_indices, ci, lists,
                    statutory_by_type, totals, accounts, result, appVars >>

\* analyze(), lines 336-372.
BuildPool ==
    /\ pc = "pool"
    /\ all_transactions' = BuildPoolOf(data)
    /\ pc' = "detect"
    /\ UNCHANGED << engineVars, error, data, missing_accounts, missing_bank_codes,
                    set_order, credits_sorted, debits_sorted, used_indices, ci, lists,
                    statutory_by_type, totals, accounts, result, appVars >>


(***************************************************************************)
(* Step 2: missing bank accounts                                           *)
(***************************************************************************)

\* What the keyword tables say about each description a statement can hold,
\* computed once.
KnownDescriptions == { Catalogue[k].description : k \in 1..Len(Catalogue) }

DescInfo ==
    [ d \in KnownDescriptions |->
        [ marker |-> has_inter_account_marker(d),
          codes |-> CodesIn(d),
          statutory |-> check_statutory(d),
          salary |-> AnyIn(SALARY_KEYWORDS, Upper(d)),
          utility |-> AnyIn(UTILITY_KEYWORDS, Upper(d)),
          bank_charge |-> AnyIn(BANK_CHARGE_KEYWORDS, Upper(d)),
          disbursement |-> AnyIn(DISBURSEMENT_KEYWORDS, Upper(d)),
          interest |-> AnyIn(INTEREST_KEYWORDS, Upper(d)),
          reversal |-> AnyIn(REVERSAL_KEYWORDS, Upper(d)) ] ]

\* f"{code} ({name})"
MissingKey(bc) == bc.code \o <<" ", "(">> \o bc.name \o <<")">>

\* The keys step 2 increments, one per (transaction, code) hit, in loop order.
RECURSIVE MissingHits(_, _, _)
MissingHits(txns, provided, i) ==
    IF i > Len(txns) THEN <<>>
    ELSE LET hit == SelectSeq(DescInfo[txns[i].description].codes,
                              LAMBDA bc : bc.code \notin provided)
         IN  [ j \in 1..Len(hit) |-> MissingKey(hit[j]) ] \o MissingHits(txns, provided, i + 1)

\* The defaultdict(int) those increments build: keys in insertion order.
RECURSIVE CountHits(_, _)
CountHits(d, hits) ==
    IF hits = <<>> THEN d
    ELSE LET k == hits[1]
             at == { i \in 1..Len(d) : d[i].key = k }
         IN  CountHits(IF at = {}
                       THEN Append(d, [ key |-> k, count |-> 1 ])
                       ELSE [ i \in 1..Len(d) |->
                                IF i \in at THEN [ d[i] EXCEPT !.count = @ + 1 ] ELSE d[i] ],
                       Tail(hits))

MissingAccountsOf(txns, provided) == CountHits(<<>>, MissingHits(txns, provided, 1))

\* key.split()[0] of every key
MissingBankCodesOf(ma) == { Split(ma[i].key)[1] : i \in 1..Len(ma) }

\* analyze(), lines 377-388.  The set missing_bank_codes is built here; the order
\* in which it iterates is fixed for the run when it is built.
DetectMissing ==
    /\ pc = "detect"
    /\ missing_accounts' = MissingAccountsOf(all_transactions, engine.PROVIDED_BANK_CODES)
    /\ missing_bank_codes' = MissingBankCodesOf(missing_accounts')
    /\ set_order' \in IterationOrders(missing_bank_codes')
    /\ pc' = "separate"
    /\ UNCHANGED << engineVars, error, data, all_transactions, credits_sorted,
                    debits_sorted, used_indices, ci, lists, statutory_by_type, totals,
                    accounts, result, appVars >>

(***************************************************************************)
(* Step 3: credits and debits, and the matching order                      *)
(***************************************************************************)

CreditKeyLess(a, b) ==
    \/ StrLess(a.date, b.date)
    \/ /\ a.date = b.date
       /\ \/ -a.credit < -b.credit
          \/ (a.credit = b.credit /\ StrLess(a.description, b.description))

DebitKeyLess(a, b) ==
    \/ StrLess(a.date, b.date)
    \/ /\ a.date = b.date
       /\ \/ -a.debit < -b.debit
          \/ (a.debit = b.debit /\ StrLess(a.description, b.description))

SortedIdx(s) == [ i \in 1..Len(s) |-> s[i].sorted_idx ]

CreditsSortedOf(txns) ==
    SortedIdx(SortBy(SelectSeq(txns, LAMBDA t : t.credit > 0), CreditKeyLess))

DebitsSortedOf(txns) ==
    SortedIdx(SortBy(SelectSeq(txns, LAMBDA t : t.debit > 0), DebitKeyLess))

\* The transaction with a given sorted_idx.
Txn(i) == all_transactions[i + 1]

\* analyze(), lines 393-420.
Separate ==
    /\ pc = "separate"
    /\ credits_sorted' = CreditsSortedOf(all_transactions)
    /\ debits_sorted' = DebitsSortedOf(all_transactions)
    /\ used_indices' = {}
    /\ ci' = 1
    /\ pc' = IF credits_sorted' = <<>> THEN "c2" ELSE "match"
    /\ UNCHANGED << engineVars, error, data, all_transactions, missing_accounts,
                    missing_bank_codes, set_order, lists, statutory_by_type, totals,
                    accounts, result, appVars >>

(***************************************************************************)
(* Step 4, priority 1: the transfer matcher (lines 429-476)                *)
(***************************************************************************)

\* line 436
SameAccount(c, d) == d.account_id = c.account_id

AmountMismatch_Exact(c, d) == c.credit # d.debit

\* line 440
AmountMismatch(c, d) == Abs(c.credit - d.debit) > AMOUNT_TOLERANCE

\* lines 444-445 raise ValueError unless both dates parse
DatesParse(c, d) == Parses(c.date) /\ Parses(d.date)

DateMismatch_NoAbs(c, d) == ParseDate(c.date) - ParseDate(d.date) > DAY_TOLERANCE

\* line 446
DateMismatch(c, d) == Abs(ParseDate(c.date) - ParseDate(d.date)) > DAY_TOLERANCE

Corroborated_Always(c, d) == TRUE

\* lines 450-457
Corroborated(c, d) ==
    \/ DescInfo[c.description].marker
    \/ DescInfo[d.description].marker
    \/ has_company_name(c.description, engine.COMPANY_KEYWORDS)
    \/ has_company_name(d.description, engine.COMPANY_KEYWORDS)
    \/ c.credit >= LARGE_TRANSFER

\* The inner loop for one credit: the first debit, in debits_sorted order, that
\* is accepted, unless a date that does not parse is met before.
RECURSIVE ScanDebits(_, _, _)
ScanDebits(c, used, j) ==
    IF j > Len(debits_sorted) THEN [ outcome |-> "none", debit |-> -1 ]
    ELSE LET d == Txn(debits_sorted[j]) IN
         IF d.sorted_idx \in used \/ SameAccount(c, d) \/ AmountMismatch(c, d)
         THEN ScanDebits(c, used, j + 1)
         ELSE IF ~DatesParse(c, d) THEN [ outcome |-> "raise", debit |-> d.sorted_idx ]
         ELSE IF DateMismatch(c, d) THEN ScanDebits(c, used, j + 1)
         ELSE IF Corroborated(c, d) THEN [ outcome |-> "match", debit |-> d.sorted_idx ]
         ELSE ScanDebits(c, used, j + 1)

MatchedTransfer_CreditTwice(c, d) ==
    [ date |-> c.date, amount |-> c.credit,
      from_account |-> d.account_id, to_account |-> c.account_id,
      credit_description |-> c.description, debit_description |-> d.description,
      credit_idx |-> c.sorted_idx, debit_idx |-> c.sorted_idx ]

\* lines 459-468
MatchedTransfer(c, d) ==
    [ date |-> c.date, amount |-> c.credit,
      from_account |-> d.account_id, to_account |-> c.account_id,
      credit_description |-> c.description, debit_description |-> d.description,
      credit_idx |-> c.sorted_idx, debit_idx |-> d.sorted_idx ]

SetCategory_KeepFlag(txns, idxs, cat, excl) ==
    [ i \in 1..Len(txns) |->
        IF txns[i].sorted_idx \in idxs
        THEN [ txns[i] EXCEPT !.category = cat ]
        ELSE txns[i] ]

\* txns with the category and the exclusion flag of the given transactions set.
SetCategory(txns, idxs, cat, excl) ==
    [ i \in 1..Len(txns) |->
        IF txns[i].sorted_idx \in idxs
        THEN [ txns[i] EXCEPT !.category = cat, !.exclude_from_turnover = excl ]
        ELSE txns[i] ]

AddMatched_CreditOnly(used, credit_idx, debit_idx) == used \cup { credit_idx }

\* used_indices.add of both transactions of a pair (lines 474-475)
AddMatched(used, credit_idx, debit_idx) == used \cup { credit_idx, debit_idx }

\* One iteration of the outer loop of the matcher.
MatchCredit ==
    /\ pc = "match"
    /\ ci <= Len(credits_sorted)
    /\ LET c == Txn(credits_sorted[ci])
           r == IF c.sorted_idx \in used_indices
                THEN [ outcome |-> "none", debit |-> -1 ]
                ELSE ScanDebits(c, used_indices, 1)
           next == IF ci + 1 > Len(credits_sorted) THEN "c2" ELSE "match"
       IN  /\ ci' = ci + 1
           /\ IF r.outcome = "raise"
              THEN /\ pc' = "failed"
                   /\ error' = "ValueError: time data does not match format"
                   /\ UNCHANGED << all_transactions, lists, used_indices >>
              ELSE IF r.outcome = "match"
              THEN /\ pc' = next
                   /\ error' = error
                   /\ lists' = [ lists EXCEPT !.matched_transfers =
                                   Append(@, MatchedTransfer(c, Txn(r.debit))) ]
                   /\ all_transactions' =
                          SetCategory(all_transactions, { c.sorted_idx, r.debit },
                                      "INTER_ACCOUNT_TRANSFER", TRUE)
                   /\ used_indices' = AddMatched(used_indices, c.sorted_idx, r.debit)
              ELSE /\ pc' = next
                   /\ error' = error
                   /\ UNCHANGED << all_transactions, lists, used_indices >>
    /\ UNCHANGED << engineVars, data, missing_accounts, missing_bank_codes, set_order,
                    credits_sorted, debits_sorted, statutory_by_type, totals, accounts,
                    result, appVars >>


(***************************************************************************)
(* Steps 4 and 5: the priority pipelines (lines 481-732)                   *)
(***************************************************************************)

\* The transactions a stage loop acts on: those of `order` that are not in
\* used_indices and satisfy the stage's test, in loop order.
StageHits(order, P(_)) ==
    SelectSeq(order, LAMBDA i : i \notin used_indices /\ P(Txn(i)))

rp_patterns == generate_related_party_patterns(engine.RELATED_PARTIES)

IsUnverified_UnlessRelated(t) ==
    /\ get_missing_bank_code(t.description, set_order) # <<>>
    /\ \/ DescInfo[t.description].marker
       \/ has_company_name(t.description, engine.COMPANY_KEYWORDS)
    /\ ~check_related_party(t.description, rp_patterns).hit

\* The test of both unverified inter-account stages (lines 486-488, 625-627).
IsUnverified(t) ==
    /\ get_missing_bank_code(t.description, set_order) # <<>>
    /\ \/ DescInfo[t.description].marker
       \/ has_company_name(t.description, engine.COMPANY_KEYWORDS)

IsRelatedParty_UnlessStatutory(t) ==
    /\ check_related_party(t.description, rp_patterns).hit
    /\ DescInfo[t.description].statutory = "None"

IsRelatedParty(t) == check_related_party(t.description, rp_patterns).hit

IsLoan(t) == DescInfo[t.description].disbursement

IsInterest(t) == DescInfo[t.description].interest

IsReversal(t) == DescInfo[t.description].reversal

IsStatutory(t) == DescInfo[t.description].statutory # "None"

IsSalary(t) == DescInfo[t.description].salary

IsUtility(t) == DescInfo[t.description].utility

IsBankCharge_AtMostCeiling(t) ==
    DescInfo[t.description].bank_charge /\ t.debit <= BANK_CHARGE_CEILING

IsBankCharge(t) == DescInfo[t.description].bank_charge /\ t.debit < BANK_CHARGE_CEILING

IsAny(t) == TRUE

UnverifiedEntry(t, type, amount) ==
    [ date |-> t.date, account |-> t.account_id, type |-> type, amount |-> amount,
      description |-> t.description,
      target_bank |-> get_missing_bank_code(t.description, set_order),
      verification_status |-> "UNVERIFIED" ]

CreditEntry(t) == [ date |-> t.date, amount |-> t.credit, description |-> t.description ]

DebitEntry(t) == [ date |-> t.date, amount |-> t.debit, description |-> t.description ]

GenuineEntry(t) == CreditEntry(t) @@ [ account |-> t.account_id ]

StatutoryEntry(t) ==
    [ date |-> t.date, type |-> DescInfo[t.description].statutory, amount |-> t.debit,
      description |-> t.description, account |-> t.account_id ]

\* The related-party annotations a stage writes besides the category.
Annotate(txns, idxs) ==
    [ i \in 1..Len(txns) |->
        IF txns[i].sorted_idx \in idxs
        THEN LET m == check_related_party(txns[i].description, rp_patterns)
             IN  [ txns[i] EXCEPT !.is_related_party = TRUE,
                                  !.related_party_name = m.name,
                                  !.related_party_relationship = m.relationship,
                                  !.purpose_note = m.purpose_note ]
        ELSE txns[i] ]

StatutoryMonths_NotRecorded(hits, type) == << >>

\* The months a statutory stage appends to statutory_by_type[type], in loop order.
StatutoryMonths(hits, type) ==
    LET mine == SelectSeq(hits, LAMBDA i : DescInfo[Txn(i).description].statutory = type)
    IN  [ k \in 1..Len(mine) |-> Prefix(Txn(mine[k]).date, 7) ]

\* One stage loop: every hit gets the category and the flag, its entry is
\* appended to the stage's list, and its sorted_idx joins used_indices.
Stage(from, to, hits, cat, excl, list, Entry(_)) ==
    /\ pc = from
    /\ pc' = to
    /\ lists' = [ lists EXCEPT ![list] = @ \o [ k \in 1..Len(hits) |-> Entry(Txn(hits[k])) ] ]
    /\ all_transactions' =
           IF cat = "RELATED_PARTY"
           THEN Annotate(SetCategory(all_transactions, Range(hits), cat, excl), Range(hits))
           ELSE SetCategory(all_transactions, Range(hits), cat, excl)
    /\ used_indices' = used_indices \cup Range(hits)
    /\ statutory_by_type' =
           IF cat = "STATUTORY_PAYMENT"
           THEN [ t \in StatTypes |-> statutory_by_type[t] \o StatutoryMonths(hits, t) ]
           ELSE statutory_by_type
    /\ UNCHANGED << engineVars, error, data, missing_accounts, missing_bank_codes,
                    set_order, credits_sorted, debits_sorted, ci, totals, accounts,
                    result, appVars >>

Ref(t) == t.sorted_idx

CreditUnverifiedEntry(t) == UnverifiedEntry(t, "CREDIT", t.credit)

DebitUnverifiedEntry(t) == UnverifiedEntry(t, "DEBIT", t.debit)

\* Credit priority 2 (lines 481-501)
CreditUnverified ==
    Stage("c2", "c3", StageHits(credits_sorted, IsUnverified),
          "INTER_ACCOUNT_TRANSFER_UNVERIFIED", TRUE,
          "unverified_credit_transfers", CreditUnverifiedEntry)

\* Credit priority 3 (lines 506-520)
CreditRelatedParty ==
    Stage("c3", "c4", StageHits(credits_sorted, IsRelatedParty),
          "RELATED_PARTY", TRUE, "related_party_credits", Ref)

\* Credit priority 4 (lines 525-538)
CreditLoan ==
    Stage("c4", "c5", StageHits(credits_sorted, IsLoan),
          "LOAN_DISBURSEMENT", TRUE, "loan_disbursements", CreditEntry)

\* Credit priority 5 (lines 543-556)
CreditInterest ==
    Stage("c5", "c6", StageHits(credits_sorted, IsInterest),
          "INTEREST_PROFIT_DIVIDEND", TRUE, "interest_credits", CreditEntry)

\* Credit priority 6 (lines 561-574)
CreditReversal ==
    Stage("c6", "c7", StageHits(credits_sorted, IsReversal),
          "REVERSAL", TRUE, "reversals", CreditEntry)

\* Credit priority 7 (lines 579-591)
CreditGenuine ==
    Stage("c7", "d2", StageHits(credits_sorted, IsAny),
          "GENUINE_SALES_COLLECTIONS", FALSE, "genuine_credits", GenuineEntry)

\* Debit priority 2 (lines 601-615)
DebitRelatedParty ==
    Stage("d2", "d3", StageHits(debits_sorted, IsRelatedParty),
          "RELATED_PARTY", TRUE, "related_party_debits", Ref)

\* Debit priority 3 (lines 620-640)
DebitUnverified ==
    Stage("d3", "d4", StageHits(debits_sorted, IsUnverified),
          "INTER_ACCOUNT_TRANSFER_UNVERIFIED", TRUE,
          "unverified_debit_transfers", DebitUnverifiedEntry)

\* Debit priority 4 (lines 645-662)
DebitStatutory ==
    Stage("d4", "d5", StageHits(debits_sorted, IsStatutory),
          "STATUTORY_PAYMENT", FALSE, "statutory_payments", StatutoryEntry)

\* Debit priority 5 (lines 667-680)
DebitSalary ==
    Stage("d5", "d6", StageHits(debits_sorted, IsSalary),
          "SALARY_WAGES", FALSE, "salary_wages", DebitEntry)

\* Debit priority 6 (lines 685-698)
DebitUtilities ==
    Stage("d6", "d7", StageHits(debits_sorted, IsUtility),
          "UTILITIES", FALSE, "utilities", DebitEntry)

\* Debit priority 7 (lines 703-716)
DebitBankCharges ==
    Stage("d7", "d8", StageHits(debits_sorted, IsBankCharge),
          "BANK_CHARGES", FALSE, "bank_charges", DebitEntry)

\* Debit priority 8 (lines 721-732)
DebitSupplier ==
    Stage("d8", "totals", StageHits(debits_sorted, IsAny),
          "SUPPLIER_VENDOR_PAYMENTS", FALSE, "supplier_payments", DebitEntry)


(***************************************************************************)
(* Step 6: totals (lines 737-761)                                          *)
(***************************************************************************)

Amounts(entries) == SumSeq([ i \in 1..Len(entries) |-> entries[i].amount ])

\* line 753: the debit side of the matched transfers
MatchedDebitAmount(matched_credit_amount) == matched_credit_amount

TotalsOf ==
    LET total_credits ==
            SumSeq([ i \in 1..Len(all_transactions) |->
                       IF all_transactions[i].credit > 0 THEN all_transactions[i].credit ELSE 0 ])
        total_debits ==
            SumSeq([ i \in 1..Len(all_transactions) |->
                       IF all_transactions[i].debit > 0 THEN all_transactions[i].debit ELSE 0 ])
        matched_credit_amount == Amounts(lists.matched_transfers)
        unverified_credit_amount == Amounts(lists.unverified_credit_transfers)
        rp_credit_amount ==
            SumSeq([ i \in 1..Len(lists.related_party_credits) |->
                       Txn(lists.related_party_credits[i]).credit ])
        loan_disb_amount == Amounts(lists.loan_disbursements)
        interest_amount == Amounts(lists.interest_credits)
        reversal_amount == Amounts(lists.reversals)
        total_credit_exclusions ==
            matched_credit_amount + unverified_credit_amount + rp_credit_amount
                + loan_disb_amount + interest_amount + reversal_amount
        matched_debit_amount == MatchedDebitAmount(matched_credit_amount)
        unverified_debit_amount == Amounts(lists.unverified_debit_transfers)
        rp_debit_amount ==
            SumSeq([ i \in 1..Len(lists.related_party_debits) |->
                       Txn(lists.related_party_debits[i]).debit ])
        total_debit_exclusions ==
            matched_debit_amount + unverified_debit_amount + rp_debit_amount
    IN  [ total_credits |-> total_credits,
          total_debits |-> total_debits,
          matched_credit_amount |-> matched_credit_amount,
          unverified_credit_amount |-> unverified_credit_amount,
          rp_credit_amount |-> rp_credit_amount,
          loan_disb_amount |-> loan_disb_amount,
          interest_amount |-> interest_amount,
          reversal_amount |-> reversal_amount,
          total_credit_exclusions |-> total_credit_exclusions,
          matched_debit_amount |-> matched_debit_amount,
          unverified_debit_amount |-> unverified_debit_amount,
          rp_debit_amount |-> rp_debit_amount,
          total_debit_exclusions |-> total_debit_exclusions,
          net_credits |-> total_credits - total_credit_exclusions,
          net_debits |-> total_debits - total_debit_exclusions ]

Totals ==
    /\ pc = "totals"
    /\ totals' = TotalsOf
    /\ pc' = "accounts"
    /\ UNCHANGED << engineVars, error, data, all_transactions, missing_accounts,
                    missing_bank_codes, set_order, credits_sorted, debits_sorted,
                    used_indices, ci, lists, statutory_by_type, accounts, result, appVars >>

(***************************************************************************)
(* Step 8: the accounts array (lines 773-824)                              *)
(***************************************************************************)

\* round() of the double nearest n / d.  Where n / d lies exactly half way between
\* two neighbours the double lies on either side of the half, and round() returns
\* value or value + 1 accordingly: tie tells that value is the lower of the two.
Nearest(n, d) ==
    LET a == IF d < 0 THEN -n ELSE n
        b == IF d < 0 THEN -d ELSE d
        q == a \div b
        r == a % b
    IN  IF 2 * r < b THEN [ value |-> q, tie |-> FALSE ]
        ELSE IF 2 * r > b THEN [ value |-> q + 1, tie |-> FALSE ]
        ELSE [ value |-> q, tie |-> TRUE ]

\* calculate_volatility (lines 214-233)
\* swing / avg * 100 <= p for swing = high - low and avg = (high + low) / 2 # 0
VolPctAtMost(high, low, p) ==
    IF high + low > 0 THEN 200 * (high - low) <= p * (high + low)
    ELSE 200 * (high - low) >= p * (high + low)

VolatilityLevel_WideLow(high, low) ==
    IF VolPctAtMost(high, low, 100) THEN "LOW"
    ELSE IF VolPctAtMost(high, low, 200) THEN "HIGH"
    ELSE "EXTREME"

VolatilityLevel(high, low) ==
    IF VolPctAtMost(high, low, 50) THEN "LOW"
    ELSE IF VolPctAtMost(high, low, 100) THEN "MODERATE"
    ELSE IF VolPctAtMost(high, low, 200) THEN "HIGH"
    ELSE "EXTREME"

\* The pair calculate_volatility returns, the percentage in hundredths.
calculate_volatility(high, low) ==
    IF high = low THEN [ index |-> 0, tie |-> FALSE, level |-> "LOW" ]
    ELSE IF high + low = 0 THEN [ index |-> 0, tie |-> FALSE, level |-> "LOW" ]
    ELSE LET vol_pct == Nearest(200 * (high - low) * 100, high + low)
         IN  [ index |-> vol_pct.value, tie |-> vol_pct.tie,
               level |-> VolatilityLevel(high, low) ]

\* One row of an account's monthly breakdown (lines 782-801).
MonthlyOf(m) ==
    [ month |-> m.month,
      transaction_count |-> m.transaction_count,
      opening |-> m.ending_balance - m.net_change,
      closing |-> m.ending_balance,
      credits |-> m.total_credit,
      debits |-> m.total_debit,
      highest_intraday |-> m.highest_balance,
      lowest_intraday |-> m.lowest_balance,
      volatility_pct |-> calculate_volatility(m.highest_balance, m.lowest_balance).index,
      volatility_tie |-> calculate_volatility(m.highest_balance, m.lowest_balance).tie,
      volatility_level |-> calculate_volatility(m.highest_balance, m.lowest_balance).level ]

AccountOf_FromTransactions(acc_id, acc_data) ==
    LET txns == acc_data.transactions
        total_cr == SumSeq([ i \in 1..Len(txns) |-> txns[i].credit ])
        total_dr == SumSeq([ i \in 1..Len(txns) |-> txns[i].debit ])
    IN  [ account_id |-> acc_id,
          total_credits |-> total_cr,
          total_debits |-> total_dr,
          transaction_volume |-> total_cr + total_dr,
          transaction_count |-> acc_data.total_transactions,
          opening_balance |-> IF txns # <<>>
                              THEN txns[1].balance - txns[1].credit + txns[1].debit ELSE 0,
          closing_balance |-> IF txns # <<>> THEN txns[Len(txns)].balance ELSE 0,
          monthly_summary |-> [ i \in 1..Len(acc_data.monthly_summary) |->
                                  MonthlyOf(acc_data.monthly_summary[i]) ] ]

\* The entry of one loaded account (lines 803-824); the statement has the key
\* monthly_summary.
AccountOf(acc_id, acc_data) ==
    LET ms == acc_data.monthly_summary
        monthly == [ i \in 1..Len(ms) |-> MonthlyOf(ms[i]) ]
        total_cr == SumSeq([ i \in 1..Len(ms) |-> ms[i].total_credit ])
        total_dr == SumSeq([ i \in 1..Len(ms) |-> ms[i].total_debit ])
    IN  [ account_id |-> acc_id,
          total_credits |-> total_cr,
          total_debits |-> total_dr,
          transaction_volume |-> total_cr + total_dr,
          transaction_count |-> acc_data.total_transactions,
          opening_balance |-> IF monthly # <<>> THEN monthly[1].opening ELSE 0,
          closing_balance |-> IF monthly # <<>> THEN monthly[Len(monthly)].closing ELSE 0,
          monthly_summary |-> monthly ]

\* The loaded account ids in the order of the loop of line 774.
LoadedAccounts(d) ==
    SelectSeq([ i \in 1..Len(SortedAccountIds) |-> SortedAccountIds[i][1] ],
              LAMBDA a : a \in DOMAIN d)

\* analyze(), lines 773-824: acc_data['monthly_summary'] raises KeyError for a
\* statement without the key.
Accounts ==
    /\ pc = "accounts"
    /\ LET ids == LoadedAccounts(data) IN
       IF \E i \in 1..Len(ids) : ~data[ids[i]].has_monthly_summary
       THEN /\ pc' = "failed"
            /\ error' = "KeyError: monthly_summary"
            /\ accounts' = accounts
       ELSE /\ pc' = "report"
            /\ error' = error
            /\ accounts' = [ i \in 1..Len(ids) |-> AccountOf(ids[i], data[ids[i]]) ]
    /\ UNCHANGED << engineVars, data, all_transactions, missing_accounts,
                    missing_bank_codes, set_order, credits_sorted, debits_sorted,
                    used_indices, ci, lists, statutory_by_type, totals, result, appVars >>

(***************************************************************************)
(* Period (lines 827-831) and the report (lines 952-1315)                  *)
(***************************************************************************)

DEFAULT_PERIOD_START == <<"2","0","2","5","-","0","1","-","0","1">>

DEFAULT_PERIOD_END == <<"2","0","2","5","-","1","2","-","3","1">>

DEFAULT_NUM_MONTHS == 6

all_dates == { all_transactions[i].date : i \in 1..Len(all_transactions) }

period_start ==
    IF all_dates # {} THEN CHOOSE d \in all_dates : \A e \in all_dates : e = d \/ StrLess(d, e)
    ELSE DEFAULT_PERIOD_START

period_end ==
    IF all_dates # {} THEN CHOOSE d \in all_dates : \A e \in all_dates : e = d \/ StrLess(e, d)
    ELSE DEFAULT_PERIOD_END

expected_months == SortStrings({ Prefix(d, 7) : d \in all_dates })

num_months_NoDefault == Len(expected_months)

\* line 831: len(expected_months) or 6
num_months == IF Len(expected_months) # 0 THEN Len(expected_months) ELSE DEFAULT_NUM_MONTHS

\* sorted(missing_accounts.items(), key=lambda x: -x[1])
CountMore(a, b) == -a.count < -b.count

\* sorted(unverified credit + debit transfers, key=(-amount, date))[:20]
UnverifiedLess(a, b) ==
    \/ -a.amount < -b.amount
    \/ (a.amount = b.amount /\ StrLess(a.date, b.date))

\* One entry of result['categories'][side]
CategoryRow(cat, count, amount) == [ category |-> cat, count |-> count, amount |-> amount ]

\* categories.credits (lines 1080-1136): category, count, amount
CreditRows ==
    << CategoryRow("GENUINE_SALES_COLLECTIONS", Len(lists.genuine_credits),
                   Amounts(lists.genuine_credits)),
       CategoryRow("INTER_ACCOUNT_TRANSFER", Len(lists.matched_transfers),
                   totals.matched_credit_amount),
       CategoryRow("INTER_ACCOUNT_TRANSFER_UNVERIFIED",
                   Len(lists.unverified_credit_transfers),
                   totals.unverified_credit_amount),
       CategoryRow("RELATED_PARTY", Len(lists.related_party_credits),
                   totals.rp_credit_amount),
       CategoryRow("LOAN_DISBURSEMENT", Len(lists.loan_disbursements),
                   totals.loan_disb_amount),
       CategoryRow("INTEREST_PROFIT_DIVIDEND", Len(lists.interest_credits),
                   totals.interest_amount),
       CategoryRow("REVERSAL", Len(lists.reversals), totals.reversal_amount) >>

\* categories.debits (lines 1138-1202)
DebitRows ==
    << CategoryRow("SUPPLIER_VENDOR_PAYMENTS", Len(lists.supplier_payments),
                   Amounts(lists.supplier_payments)),
       CategoryRow("INTER_ACCOUNT_TRANSFER", Len(lists.matched_transfers),
                   totals.matched_debit_amount),
       CategoryRow("RELATED_PARTY", Len(lists.related_party_debits),
                   totals.rp_debit_amount),
       CategoryRow("STATUTORY_PAYMENT", Len(lists.statutory_payments),
                   Amounts(lists.statutory_payments)),
       CategoryRow("INTER_ACCOUNT_TRANSFER_UNVERIFIED",
                   Len(lists.unverified_debit_transfers),
                   totals.unverified_debit_amount),
       CategoryRow("SALARY_WAGES", Len(lists.salary_wages),
                   Amounts(lists.salary_wages)),
       CategoryRow("UTILITIES", Len(lists.utilities), Amounts(lists.utilities)),
       CategoryRow("BANK_CHARGES", Len(lists.bank_charges),
                   Amounts(lists.bank_charges)) >>

(***************************************************************************)
(* Arithmetic of the report: amounts are whole numbers, and a rounded      *)
(* quotient is held in units of its last decimal (hundredths for           *)
(* round(x, 2), tenths for round(x, 1)).                                   *)
(***************************************************************************)

\* round(n / d): the nearest whole number, a half going to the even neighbour.
RoundHalfEven(n, d) ==
    LET a == IF d < 0 THEN -n ELSE n
        b == IF d < 0 THEN -d ELSE d
        q == a \div b
        r == a % b
    IN  IF 2 * r < b THEN q
        ELSE IF 2 * r > b THEN q + 1
        ELSE IF q % 2 = 0 THEN q ELSE q + 1

\* round(a / b * scale, 2) in hundredths; a / b raises ZeroDivisionError for b = 0.
Quotient(a, b, scale) ==
    IF b = 0 THEN [ raises |-> TRUE, value |-> 0, tie |-> FALSE ]
    ELSE LET n == Nearest(a * scale * 100, b)
         IN  [ raises |-> FALSE, value |-> n.value, tie |-> n.tie ]

\* The literal 0 of an `else 0`.
Zero == [ raises |-> FALSE, value |-> 0, tie |-> FALSE ]

\* A quotient as the report holds it.
Figure(q) == [ value |-> q.value, tie |-> q.tie ]

\* round(part / total * 100, 2) if total > 0 else 0
Percentage_Unguarded(part, total) == Quotient(part, total, 100)

Percentage(part, total) == IF total > 0 THEN Quotient(part, total, 100) ELSE Zero

(***************************************************************************)
(* Step 7: round-figure analysis (lines 766-768)                           *)
(***************************************************************************)

round_figure_credits_AnyCredit ==
    SelectSeq(lists.genuine_credits \o lists.loan_disbursements \o lists.interest_credits
                  \o lists.reversals \o lists.unverified_credit_transfers,
              LAMBDA t : is_round_figure(t.amount))

round_figure_credits == SelectSeq(lists.genuine_credits, LAMBDA t : is_round_figure(t.amount))

round_figure_total == Amounts(round_figure_credits)

\* round_figure_pct > p, for the unrounded round_figure_pct of line 768
RoundFigurePctAbove(p) ==
    totals.total_credits > 0 /\ round_figure_total * 100 > p * totals.total_credits

(***************************************************************************)
(* Step 9: recurring payments (lines 836-846), get_recurring_status        *)
(***************************************************************************)

Max(a, b) == IF a >= b THEN a ELSE b

get_recurring_status_FixedFour(found_count, expected_count) ==
    IF found_count >= 4 THEN "FOUND"
    ELSE IF found_count >= 1 THEN "PARTIAL"
    ELSE "NOT_FOUND"

get_recurring_status(found_count, expected_count) ==
    IF found_count >= Max(4, expected_count - 2) THEN "FOUND"
    ELSE IF found_count >= 1 THEN "PARTIAL"
    ELSE "NOT_FOUND"

\* set(statutory_by_type.get(type, []))
found_months(type) == Range(statutory_by_type[type])

\* One entry of recurring_payments.payment_types (lines 1232-1243).
PaymentType(type) ==
    LET months == found_months(type)
        expected == expected_months
        n == num_months
    IN  [ type |-> type,
          expected_count |-> n,
          found_count |-> Cardinality(months),
          missing_months |-> SelectSeq(expected, LAMBDA m : m \notin months),
          status |-> get_recurring_status(Cardinality(months), n) ]

(***************************************************************************)
(* Step 10: volatility (lines 851-863), calculate_volatility               *)
(***************************************************************************)

\* The highest_intraday / lowest_intraday of every month of every account.
all_highs ==
    UNION { { accounts[i].monthly_summary[j].highest_intraday :
                j \in 1..Len(accounts[i].monthly_summary) } : i \in 1..Len(accounts) }

all_lows ==
    UNION { { accounts[i].monthly_summary[j].lowest_intraday :
                j \in 1..Len(accounts[i].monthly_summary) } : i \in 1..Len(accounts) }

overall_high == CHOOSE h \in all_highs : \A x \in all_highs : x <= h

overall_low == CHOOSE l \in all_lows : \A x \in all_lows : l <= x

OverallVolatility_FirstAccount ==
    IF accounts # <<>> /\ accounts[1].monthly_summary # <<>>
    THEN calculate_volatility(accounts[1].monthly_summary[1].highest_intraday,
                              accounts[1].monthly_summary[1].lowest_intraday)
    ELSE [ index |-> 0, tie |-> FALSE, level |-> "LOW" ]

\* overall_vol, overall_level
OverallVolatility ==
    IF all_highs # {} /\ all_lows # {}
    THEN calculate_volatility(overall_high, overall_low)
    ELSE [ index |-> 0, tie |-> FALSE, level |-> "LOW" ]

(***************************************************************************)
(* Step 12: integrity score (lines 885-947)                                *)
(***************************************************************************)

POINTS_POSSIBLE == 23

Check_KeepPoints(id, weight, pass) ==
    [ id |-> id, weight |-> weight,
      status |-> IF pass THEN "PASS" ELSE "FAIL",
      points_earned |-> weight ]

Check(id, weight, pass) ==
    [ id |-> id, weight |-> weight,
      status |-> IF pass THEN "PASS" ELSE "FAIL",
      points_earned |-> IF pass THEN weight ELSE 0 ]

Detected_AllButTwo(type, n) == Cardinality(found_months(type)) >= n - 2

\* len(months) >= max(4, num_months - 2) of checks 10 to 13
Detected(type, n) == Cardinality(found_months(type)) >= Max(4, n - 2)

DataCompleteness_Weighted == Check(14, 1, missing_accounts = << >>)

\* check 14 (lines 930-934): weight 0, FAIL when a missing account was counted
DataCompleteness == Check(14, 0, missing_accounts = << >>)

checks ==
    LET n == num_months IN
    << Check(1, 3, TRUE),
       Check(2, 3, TRUE),
       Check(3, 3, TRUE),
       Check(4, 2, TRUE),
       Check(5, 2, OverallVolatility.level \notin { "HIGH", "EXTREME" }),
       Check(6, 2, ~RoundFigurePctAbove(ROUND_FIGURE_WARNING_PCT)),
       Check(7, 2, TRUE),
       Check(8, 1, TRUE),
       Check(9, 1, TRUE),
       Check(10, 1, Detected("EPF/KWSP", n)),
       Check(11, 1, Detected("SOCSO/PERKESO", n)),
       Check(12, 1, Detected("LHDN/Tax", n)),
       Check(13, 1, Detected("HRDF/PSMB", n)),
       DataCompleteness >>

total_points == LET c == checks IN SumSeq([ i \in 1..Len(c) |-> c[i].points_earned ])

\* round(total_points / 23 * 100, 1), in tenths; no multiple of 1 / 23 lies half
\* way between two tenths
score == RoundHalfEven(total_points * 100 * 10, POINTS_POSSIBLE)

rating ==
    LET s == score
    IN  IF s >= 900 THEN "EXCELLENT"
        ELSE IF s >= 750 THEN "GOOD"
        ELSE IF s >= 600 THEN "FAIR"
        ELSE "POOR"

(***************************************************************************)
(* The quotients of the report (lines 971-979, 1006-1010, 1085-1199, 1270) *)
(***************************************************************************)

\* name -> rounded quotient of the consolidated figures
Ratios ==
    LET n == num_months
    IN  [ gross_annualized_credits |-> Quotient(totals.total_credits * 12, n, 1),
          gross_annualized_debits |-> Quotient(totals.total_debits * 12, n, 1),
          net_annualized_credits |-> Quotient(totals.net_credits * 12, n, 1),
          net_annualized_debits |-> Quotient(totals.net_debits * 12, n, 1),
          income_ratio |-> IF totals.net_debits > 0
                           THEN Quotient(totals.net_credits, totals.net_debits, 1)
                           ELSE Zero,
          internal_movement_pct |->
              Percentage(totals.matched_credit_amount + totals.unverified_credit_amount,
                         totals.total_credits),
          avg_monthly_credits |-> Quotient(totals.net_credits, n, 1),
          avg_monthly_debits |-> Quotient(totals.net_debits, n, 1),
          round_figure_pct |-> IF totals.total_credits > 0
                               THEN Quotient(round_figure_total, totals.total_credits, 100)
                               ELSE Zero ]

\* The percentage of each row of categories.credits / categories.debits.
Percentages(rows, total) ==
    [ i \in 1..Len(rows) |-> Percentage(rows[i].amount, total) ]

CreditPercentages == LET rows == CreditRows IN Percentages(rows, totals.total_credits)

DebitPercentages == LET rows == DebitRows IN Percentages(rows, totals.total_debits)

ResultOf ==
    LET unv == SortBy(lists.unverified_credit_transfers \o lists.unverified_debit_transfers,
                      UnverifiedLess)
        ratios == Ratios
        credit_pct == CreditPercentages
        debit_pct == DebitPercentages
        round_figure == round_figure_credits
    IN  [ returned |-> TRUE,
          company_name |-> engine.COMPANY_NAME,
          period_start |-> period_start,
          period_end |-> period_end,
          total_accounts |-> Len(accounts),
          total_months |-> num_months,
          accounts_not_provided |-> SortBy(missing_accounts, CountMore),
          accounts |-> accounts,
          gross |-> [ total_credits |-> totals.total_credits,
                      total_debits |-> totals.total_debits ],
          business_turnover |-> [ net_credits |-> totals.net_credits,
                                  net_debits |-> totals.net_debits ],
          matched_count |-> Len(lists.matched_transfers),
          missing_accounts |-> set_order,
          unverified_transfers |-> SubSeq(unv, 1, IF Len(unv) < 20 THEN Len(unv) ELSE 20),
          credit_categories |-> CreditRows,
          debit_categories |-> DebitRows,
          recommended_banks |->
              IF missing_accounts # <<>>
              THEN SubSeq(set_order, 1, IF Len(set_order) < 3 THEN Len(set_order) ELSE 3)
              ELSE <<>>,
          ratios |-> [ f \in DOMAIN ratios |-> Figure(ratios[f]) ],
          credit_percentages |-> [ i \in 1..Len(credit_pct) |-> Figure(credit_pct[i]) ],
          debit_percentages |-> [ i \in 1..Len(debit_pct) |-> Figure(debit_pct[i]) ],
          volatility |-> OverallVolatility,
          recurring_payments |->
              << PaymentType("EPF/KWSP"), PaymentType("SOCSO/PERKESO"),
                 PaymentType("LHDN/Tax"), PaymentType("HRDF/PSMB") >>,
          round_figure |->
              [ count |-> Len(round_figure),
                total_amount |-> Amounts(round_figure),
                percentage_of_credits |-> Figure(ratios.round_figure_pct),
                assessment |-> IF RoundFigurePctAbove(50) THEN "HIGH"
                               ELSE IF RoundFigurePctAbove(ROUND_FIGURE_WARNING_PCT)
                                    THEN "ELEVATED" ELSE "NORMAL" ],
          integrity_score |->
              [ score |-> score, points_earned |-> total_points,
                points_possible |-> POINTS_POSSIBLE, rating |-> rating,
                checks |-> checks ] ]

\* Some division of the report divides by zero.
ReportRaises ==
    LET ratios == Ratios
        credit_pct == CreditPercentages
        debit_pct == DebitPercentages
    IN  \/ \E f \in DOMAIN ratios : ratios[f].raises
        \/ \E i \in 1..Len(credit_pct) : credit_pct[i].raises
        \/ \E i \in 1..Len(debit_pct) : debit_pct[i].raises

\* analyze(), lines 766-768 and 827-1315: the analyses over the categorised
\* pool, then the report is built and returned; a division by zero raises.
BuildResult ==
    /\ pc = "report"
    /\ IF ReportRaises
       THEN /\ pc' = "failed"
            /\ error' = "ZeroDivisionError"
            /\ result' = result
       ELSE /\ pc' = "done"
            /\ error' = error
            /\ result' = ResultOf
    /\ UNCHANGED << engineVars, data, all_transactions, missing_accounts,
                    missing_bank_codes, set_order, credits_sorted, debits_sorted,
                    used_indices, ci, lists, statutory_by_type, totals, accounts, appVars >>

(***************************************************************************)
(* One call of analyze()                                                   *)
(***************************************************************************)

Next ==
    \/ LoadData
    \/ BuildPool
    \/ DetectMissing
    \/ Separate
    \/ MatchCredit
    \/ CreditUnverified
    \/ CreditRelatedParty
    \/ CreditLoan
    \/ CreditInterest
    \/ CreditReversal
    \/ CreditGenuine
    \/ DebitRelatedParty
    \/ DebitUnverified
    \/ DebitStatutory
    \/ DebitSalary
    \/ DebitUtilities
    \/ DebitBankCharges
    \/ DebitSupplier
    \/ Totals
    \/ Accounts
    \/ BuildResult

Spec == Init /\ [][Next]_vars

(***************************************************************************)
(* app.py: the sessions of the Streamlit app and the shared engine module  *)
(***************************************************************************)

\* Streamlit executes app.py from its first line to its last for every run of a
\* session's script, each session in a thread of its own; the module
\* bank_analysis_v5_2_1 is imported once and its globals are shared by all.

\* Script runs with the button pressed, per session.
MaxRuns == 2

Sessions == { "s1", "s2" }

\* The sessions whose script run is not s's.
Others(s) == Sessions \ { s }

\* self._backup = {} (line 444)
EmptyDict == [ k \in {} |-> k ]

\* What a session's sidebar and uploads hold when the button is pressed: the
\* arguments of EnginePatch(...) at lines 735-742.
SessionInputs(s) ==
    IF s = "s1"
    THEN [ company_name |-> "ALPHA TRADING SDN BHD",
           company_keywords |-> << <<"A","L","P","H","A">> >>,
           related_parties |-> << >>,
           account_info |-> [ a \in { "A" } |->
                                [ bank_name |-> <<"C","I","M","B">>, classification |-> "PRIMARY" ] ],
           file_paths |-> [ a \in { "A" } |-> "bank_analysis_s1/A.json" ],
           provided_bank_codes |-> [ given |-> FALSE, codes |-> {} ] ]
    ELSE [ company_name |-> "BETA HOLDINGS SDN BHD",
           company_keywords |-> << <<"B","E","T","A">> >>,
           related_parties |-> << [ name |-> <<"B","O","S","S">>,
                                     relationship |-> "Director" ] >>,
           account_info |-> [ a \in { "B" } |->
                                [ bank_name |-> <<"H","o","n","g"," ","L","e","o","n","g">>, classification |-> "SECONDARY" ] ],
           file_paths |-> [ a \in { "B" } |-> "bank_analysis_s2/B.json" ],
           provided_bank_codes |-> [ given |-> FALSE, codes |-> {} ] ]

\* The five globals analyze() reads, as the arguments of a session name them.
OwnConfig(s) ==
    [ COMPANY_NAME |-> SessionInputs(s).company_name,
      COMPANY_KEYWORDS |-> SessionInputs(s).company_keywords,
      RELATED_PARTIES |-> SessionInputs(s).related_parties,
      ACCOUNT_INFO |-> SessionInputs(s).account_info,
      FILE_PATHS |-> SessionInputs(s).file_paths ]

IdleSession ==
    [ pc |-> "idle", runs |-> 0, lock |-> << >>, backup |-> EmptyDict,
      at_enter |-> EmptyDict, read |-> EmptyDict, outcome |-> "none" ]

InitApp ==
    /\ engine = RunGlobals
    /\ files = FileSystem(<< >>, Nominal)
    /\ RunInit
    /\ sess = [ s \in Sessions |-> IdleSession ]
    /\ held = {}
    /\ overlapped = FALSE

\* A session is between EnginePatch.__enter__ and EnginePatch.__exit__.
InBlock(s) == sess[s].pc \in { "patched", "loaded", "ran" }

\* Line 26, executed by a script run: ENGINE_LOCK = threading.Lock(), a Lock
\* object of this script run.  The button has been pressed (lines 709-711).
ScriptRun(s) ==
    /\ sess[s].pc = "idle"
    /\ sess[s].runs < MaxRuns
    /\ sess' = [ sess EXCEPT ![s] =
                   [ IdleSession EXCEPT !.pc = "script", !.runs = sess[s].runs + 1,
                                        !.lock = << s, sess[s].runs + 1 >> ] ]
    /\ UNCHANGED << engineVars, runVars, held, overlapped >>

\* Line 713: with ENGINE_LOCK, entered when that Lock object is free.
AcquireLock(s) ==
    /\ sess[s].pc = "script"
    /\ sess[s].lock \notin held
    /\ held' = held \cup { sess[s].lock }
    /\ sess' = [ sess EXCEPT ![s].pc = "locked" ]
    /\ UNCHANGED << engineVars, runVars, overlapped >>

\* EnginePatch.__enter__, lines 447-455: the backup.
Backup ==
    [ COMPANY_NAME |-> engine.COMPANY_NAME,
      COMPANY_KEYWORDS |-> engine.COMPANY_KEYWORDS,
      RELATED_PARTIES |-> engine.RELATED_PARTIES,
      ACCOUNT_INFO |-> engine.ACCOUNT_INFO,
      FILE_PATHS |-> engine.FILE_PATHS,
      PROVIDED_BANK_CODES |-> engine.PROVIDED_BANK_CODES ]

\* EnginePatch.__enter__, lines 457-463: the patch.
Patch(args) ==
    [ COMPANY_NAME |-> args.company_name,
      COMPANY_KEYWORDS |-> args.company_keywords,
      RELATED_PARTIES |-> args.related_parties,
      ACCOUNT_INFO |-> args.account_info,
      FILE_PATHS |-> args.file_paths,
      PROVIDED_BANK_CODES |-> IF args.provided_bank_codes.given
                              THEN args.provided_bank_codes.codes
                              ELSE engine.PROVIDED_BANK_CODES ]

Restore_NoFilePaths(backup) ==
    [ COMPANY_NAME |-> backup.COMPANY_NAME,
      COMPANY_KEYWORDS |-> backup.COMPANY_KEYWORDS,
      RELATED_PARTIES |-> backup.RELATED_PARTIES,
      ACCOUNT_INFO |-> backup.ACCOUNT_INFO,
      FILE_PATHS |-> engine.FILE_PATHS,
      PROVIDED_BANK_CODES |-> backup.PROVIDED_BANK_CODES ]

\* EnginePatch.__exit__, lines 467-473: the restore.
Restore(backup) ==
    [ COMPANY_NAME |-> backup.COMPANY_NAME,
      COMPANY_KEYWORDS |-> backup.COMPANY_KEYWORDS,
      RELATED_PARTIES |-> backup.RELATED_PARTIES,
      ACCOUNT_INFO |-> backup.ACCOUNT_INFO,
      FILE_PATHS |-> backup.FILE_PATHS,
      PROVIDED_BANK_CODES |-> backup.PROVIDED_BANK_CODES ]

\* Lines 735-742: with EnginePatch(...), provided_bank_codes=None.
EnginePatch_enter(s) ==
    /\ sess[s].pc = "locked"
    /\ sess' = [ sess EXCEPT ![s].pc = "patched", ![s].backup = Backup,
                             ![s].at_enter = engine ]
    /\ engine' = Patch(SessionInputs(s))
    /\ overlapped' = (overlapped \/ \E t \in Others(s) : InBlock(t))
    /\ UNCHANGED << files, runVars, held >>

\* engine.analyze(), lines 326-328: load_data() reads ACCOUNT_INFO and
\* FILE_PATHS; the run goes on, or raises when nothing could be loaded.
AnalyzeLoad(s) ==
    /\ sess[s].pc = "patched"
    /\ \E raised \in BOOLEAN :
         sess' = [ sess EXCEPT ![s].pc = IF raised THEN "ran" ELSE "loaded",
                               ![s].outcome = IF raised THEN "raised" ELSE "none",
                               ![s].read = [ ACCOUNT_INFO |-> engine.ACCOUNT_INFO,
                                             FILE_PATHS |-> engine.FILE_PATHS ] ]
    /\ UNCHANGED << engineVars, runVars, held, overlapped >>

\* engine.analyze(), lines 336-1315: the matcher and the stages read
\* COMPANY_KEYWORDS and RELATED_PARTIES, the report COMPANY_NAME; the call
\* returns the report or raises.
AnalyzeRest(s) ==
    /\ sess[s].pc = "loaded"
    /\ \E raised \in BOOLEAN :
         sess' = [ sess EXCEPT ![s].pc = "ran",
                               ![s].outcome = IF raised THEN "raised" ELSE "returned",
                               ![s].read = [ ACCOUNT_INFO |-> sess[s].read.ACCOUNT_INFO,
                                             FILE_PATHS |-> sess[s].read.FILE_PATHS,
                                             COMPANY_KEYWORDS |-> engine.COMPANY_KEYWORDS,
                                             RELATED_PARTIES |-> engine.RELATED_PARTIES,
                                             COMPANY_NAME |-> engine.COMPANY_NAME ] ]
    /\ UNCHANGED << engineVars, runVars, held, overlapped >>

\* The with block of line 735 ends, analyze() having returned or raised.
EnginePatch_exit(s) ==
    /\ sess[s].pc = "ran"
    /\ engine' = Restore(sess[s].backup)
    /\ sess' = [ sess EXCEPT ![s].pc = "exited" ]
    /\ UNCHANGED << files, runVars, held, overlapped >>

\* Lines 746-783 (download, or st.error in the except clause); the temporary
\* directory is removed and the with block of line 713 releases the Lock.
ReleaseLock(s) ==
    /\ sess[s].pc = "exited"
    /\ held' = held \ { sess[s].lock }
    /\ sess' = [ sess EXCEPT ![s].pc = "idle" ]
    /\ UNCHANGED << engineVars, runVars, overlapped >>

NextApp ==
    \E s \in Sessions :
        \/ ScriptRun(s)
        \/ AcquireLock(s)
        \/ EnginePatch_enter(s)
        \/ AnalyzeLoad(s)
        \/ AnalyzeRest(s)
        \/ EnginePatch_exit(s)
        \/ ReleaseLock(s)

SpecApp == InitApp /\ [][NextApp]_vars

(***************************************************************************)
(* Properties                                                              *)
(***************************************************************************)

\* The fixed exclusion table of the categories.
ExcludedCategories ==
    { "INTER_ACCOUNT_TRANSFER", "INTER_ACCOUNT_TRANSFER_UNVERIFIED", "RELATED_PARTY",
      "LOAN_DISBURSEMENT", "INTEREST_PROFIT_DIVIDEND", "REVERSAL" }

PoolIndices == 1..Len(all_transactions)

CategoryOf(i) == all_transactions[i].category

SumRows(rows) == SumSeq([ i \in 1..Len(rows) |-> rows[i].amount ])

\* The sum of f over the pool entries that satisfy P.
SumPool(P(_), f(_)) ==
    SumSeq([ i \in 1..Len(all_transactions) |->
               IF P(all_transactions[i]) THEN f(all_transactions[i]) ELSE 0 ])

\* C1: when analyze() has returned, every transaction of the pool carries one
\* category of the closed set, and its exclude_from_turnover flag is the table
\* value of that category (true for the six excluded categories, false for the
\* six others).
C1_CategoryAndFlag ==
    pc = "done" =>
        \A i \in PoolIndices :
            /\ CategoryOf(i) \in Categories
            /\ all_transactions[i].exclude_from_turnover
                   = (CategoryOf(i) \in ExcludedCategories)

\* A returned run whose pool holds a matched entry that has both a debit and a
\* credit, and an entry of a category that counts towards turnover.
C1_Witness ==
    /\ pc = "done"
    /\ \E i, j \in PoolIndices :
         /\ CategoryOf(i) = "INTER_ACCOUNT_TRANSFER"
         /\ all_transactions[i].debit > 0 /\ all_transactions[i].credit > 0
         /\ CategoryOf(j) \notin ExcludedCategories

\* C2: in a returned report the amounts of the credit categories add up to the
\* gross total credits and the amounts of the debit categories add up to the
\* gross total debits.
C2_CategorySumsEqualGross ==
    pc = "done" =>
        /\ SumRows(result.credit_categories) = result.gross.total_credits
        /\ SumRows(result.debit_categories) = result.gross.total_debits

\* C3: in a returned report net_credits is the sum of the credits categorised
\* GENUINE_SALES_COLLECTIONS and net_debits the sum of the debits categorised
\* STATUTORY_PAYMENT, SALARY_WAGES, UTILITIES, BANK_CHARGES or
\* SUPPLIER_VENDOR_PAYMENTS, both being gross minus exclusions.
C3_NetEqualsCategoryRecomputation ==
    pc = "done" =>
        /\ result.business_turnover.net_credits
               = totals.total_credits - totals.total_credit_exclusions
        /\ result.business_turnover.net_debits
               = totals.total_debits - totals.total_debit_exclusions
        /\ result.business_turnover.net_credits
               = SumPool(LAMBDA t : t.credit > 0 /\ t.category = "GENUINE_SALES_COLLECTIONS",
                         LAMBDA t : t.credit)
        /\ result.business_turnover.net_debits
               = SumPool(LAMBDA t : t.debit > 0 /\ t.category \in
                                      { "STATUTORY_PAYMENT", "SALARY_WAGES", "UTILITIES",
                                        "BANK_CHARGES", "SUPPLIER_VENDOR_PAYMENTS" },
                         LAMBDA t : t.debit)

\* C4: every matched transfer pairs a credit and a debit of different accounts
\* whose amounts differ by at most 1 and whose dates are at most 1 calendar day
\* apart.
C4_MatchedWithinTolerance ==
    \A k \in 1..Len(lists.matched_transfers) :
        LET c == Txn(lists.matched_transfers[k].credit_idx)
            d == Txn(lists.matched_transfers[k].debit_idx)
        IN  /\ c.account_id # d.account_id
            /\ c.credit - d.debit \in -1..1
            /\ Parses(c.date) /\ Parses(d.date)
            /\ ParseDate(c.date) - ParseDate(d.date) \in -1..1

\* A matched pair across the end of February whose amounts differ by 1.
C4_Witness ==
    \E k \in 1..Len(lists.matched_transfers) :
        LET c == Txn(lists.matched_transfers[k].credit_idx)
            d == Txn(lists.matched_transfers[k].debit_idx)
        IN  /\ Prefix(c.date, 7) # Prefix(d.date, 7)
            /\ c.credit # d.debit

\* C5: a returned report is the same under every order in which the set
\* missing_bank_codes can iterate: its missing_accounts list, the target_bank of
\* its unverified transfers and the banks of its recommendation.
C5_ReportIndependentOfSetOrder ==
    pc = "done" =>
        \A o \in IterationOrders(missing_bank_codes) :
            /\ result.missing_accounts = o
            /\ \A k \in 1..Len(result.unverified_transfers) :
                 result.unverified_transfers[k].target_bank
                     = get_missing_bank_code(result.unverified_transfers[k].description, o)
            /\ result.recommended_banks
                   = IF missing_accounts # << >>
                     THEN SubSeq(o, 1, IF Len(o) < 3 THEN Len(o) ELSE 3)
                     ELSE << >>

C9_NoSummaryCompletes ==
    (\E a \in DOMAIN data : ~data[a].has_monthly_summary /\ data[a].transactions # << >>)
        => pc # "failed"

\* C9, amended: a run that loaded a statement without the key monthly_summary
\* never reaches the report, it raises KeyError when it builds the accounts; and
\* the per-account aggregates of a returned report are those of the monthly_summary
\* rows alone, zero and empty when the list is empty, whatever the transactions.
C9_SummaryRequired ==
    /\ pc \in { "report", "done" } => \A a \in DOMAIN data : data[a].has_monthly_summary
    /\ (pc = "failed" /\ error = "KeyError: monthly_summary") =>
           /\ \E a \in DOMAIN data : ~data[a].has_monthly_summary
           /\ ~result.returned
    /\ pc = "done" =>
           \A i \in 1..Len(result.accounts) :
               LET acc == result.accounts[i]
                   ms == data[acc.account_id].monthly_summary
               IN  /\ Len(acc.monthly_summary) = Len(ms)
                   /\ acc.total_credits = SumSeq([ k \in 1..Len(ms) |-> ms[k].total_credit ])
                   /\ acc.total_debits = SumSeq([ k \in 1..Len(ms) |-> ms[k].total_debit ])
                   /\ ms = << >> => /\ acc.total_credits = 0
                                    /\ acc.total_debits = 0
                                    /\ acc.opening_balance = 0
                                    /\ acc.closing_balance = 0
                   /\ ms # << >> => /\ acc.closing_balance = ms[Len(ms)].ending_balance
                                    /\ acc.opening_balance
                                           = ms[1].ending_balance - ms[1].net_change

\* The run over a statement with transactions and without the key has raised.
C9_Witness ==
    /\ pc = "failed"
    /\ error = "KeyError: monthly_summary"
    /\ \E a \in DOMAIN data :
         /\ ~data[a].has_monthly_summary
         /\ \E i \in 1..Len(data[a].transactions) : data[a].transactions[i].credit > 0

\* C10: no transaction of the pool has a date that does not parse or an empty
\* description, and no run raises on a date.
C10_BadEntriesDropped ==
    /\ \A i \in PoolIndices :
         /\ Parses(all_transactions[i].date)
         /\ all_transactions[i].description # << >>
    /\ error # "ValueError: time data does not match format"

(***************************************************************************)
(* Properties of the app                                                   *)
(***************************************************************************)

\* C6: at most one session is between EnginePatch.__enter__ and
\* EnginePatch.__exit__, and what a session's analyze() call has read of the
\* engine globals is that session's own configuration.
C6_LockSerializesRuns ==
    /\ Cardinality({ s \in Sessions : InBlock(s) }) <= 1
    /\ \A s \in Sessions :
         \A g \in DOMAIN sess[s].read : sess[s].read[g] = OwnConfig(s)[g]

\* C7: the step that ends a with EnginePatch block leaves the six globals as
\* they were when the block was entered; while no block was entered inside
\* another one, the globals are the initial ones whenever no session is in its
\* block; and no step changes PROVIDED_BANK_CODES.
C7_PatchRestores ==
    /\ [][\A s \in Sessions :
            (sess[s].pc = "ran" /\ sess'[s].pc = "exited") => engine' = sess[s].at_enter]_vars
    /\ []((~overlapped /\ \A s \in Sessions : ~InBlock(s)) => engine = RunGlobals)
    /\ [][engine'.PROVIDED_BANK_CODES = engine.PROVIDED_BANK_CODES]_vars

\* A second serialized run has ended, its analyze() call having raised, after a
\* run of the other session that returned.
C7_Witness ==
    /\ ~overlapped
    /\ engine = RunGlobals
    /\ \E s \in Sessions :
         /\ sess[s].pc = "exited"
         /\ sess[s].outcome = "raised"
         /\ sess[s].at_enter = RunGlobals
         /\ \E t \in Others(s) : sess[t].pc = "idle" /\ sess[t].outcome = "returned"

\* ---- C11 ----
\* C11: no run raises ZeroDivisionError, and a returned report holds 0 for every
\* quotient whose denominator is zero: income_ratio when net debits are zero;
\* internal_movement_pct, the round-figure percentage and the percentages of the
\* credit categories when total credits are zero; the percentages of the debit
\* categories when total debits are zero; the monthly averages and the
\* annualized figures when the pool has no month.
C11_ZeroDenominatorsReportZero ==
    /\ error # "ZeroDivisionError"
    /\ pc = "done" =>
         LET IsZero(fig) == fig.value = 0 /\ ~fig.tie
         IN  /\ result.business_turnover.net_debits = 0
                    => IsZero(result.ratios.income_ratio)
             /\ result.gross.total_credits = 0
                    => /\ IsZero(result.ratios.internal_movement_pct)
                       /\ IsZero(result.round_figure.percentage_of_credits)
                       /\ \A i \in 1..Len(result.credit_percentages) :
                              IsZero(result.credit_percentages[i])
             /\ result.gross.total_debits = 0
                    => \A i \in 1..Len(result.debit_percentages) :
                           IsZero(result.debit_percentages[i])
             /\ expected_months = << >>
                    => \A f \in { "avg_monthly_credits", "avg_monthly_debits",
                                  "gross_annualized_credits", "gross_annualized_debits",
                                  "net_annualized_credits", "net_annualized_debits" } :
                           IsZero(result.ratios[f])

\* A returned report over a pool with credits that count towards turnover and no
\* debit at all: the denominators of income_ratio and of the debit percentages
\* are zero while the numerator of income_ratio is not.
C11_Witness ==
    /\ pc = "done"
    /\ result.business_turnover.net_debits = 0
    /\ result.gross.total_debits = 0
    /\ result.business_turnover.net_credits > 0

\* ---- C12 ----
\* The credit and the debit of the scenario: ScenarioItems[1] in account A,
\* a credit of 10,000 on 2025-03-01 described "TRANSFER TO B", and
\* ScenarioItems[2] in account B, a debit of 10,000 on 2025-03-02 described
\* "TRANSFER FROM A".
IsScenarioCredit(t) ==
    /\ t.account_id = "A" /\ t.credit = 10000 /\ t.debit = 0
    /\ t.date = ScenarioItems[1].date
    /\ t.description = ScenarioItems[1].description

IsScenarioDebit(t) ==
    /\ t.account_id = "B" /\ t.debit = 10000 /\ t.credit = 0
    /\ t.date = ScenarioItems[2].date
    /\ t.description = ScenarioItems[2].description

PoolIsScenarioPair ==
    /\ Len(all_transactions) = 2
    /\ \E i, j \in PoolIndices :
         IsScenarioCredit(all_transactions[i]) /\ IsScenarioDebit(all_transactions[j])

\* C12 as stated: in the returned run over the two entries of the scenario the
\* matcher has recorded exactly one MatchedTransfer pairing them, both entries
\* are INTER_ACCOUNT_TRANSFER and excluded from turnover, and net credits and
\* net debits are those of the run without the pair, 0.
C12_ScenarioPairMatched ==
    (pc = "done" /\ PoolIsScenarioPair) =>
        /\ Len(lists.matched_transfers) = 1
        /\ \A i \in PoolIndices :
             /\ CategoryOf(i) = "INTER_ACCOUNT_TRANSFER"
             /\ all_transactions[i].exclude_from_turnover
        /\ totals.net_credits = 0
        /\ totals.net_debits = 0

\* C12, amended: in every returned run whose pool holds the two entries of the
\* scenario no MatchedTransfer pairs them; the credit is
\* GENUINE_SALES_COLLECTIONS, the debit SUPPLIER_VENDOR_PAYMENTS, neither is
\* excluded from turnover; over the two entries alone no transfer is matched
\* and net credits and net debits are 10,000 each.
C12_ScenarioPairCountsAsTurnover ==
    pc = "done" =>
        \A i, j \in PoolIndices :
            (IsScenarioCredit(all_transactions[i]) /\ IsScenarioDebit(all_transactions[j])) =>
                /\ \A k \in 1..Len(lists.matched_transfers) :
                       ~(/\ lists.matched_transfers[k].credit_idx = all_transactions[i].sorted_idx
                         /\ lists.matched_transfers[k].debit_idx = all_transactions[j].sorted_idx)
                /\ CategoryOf(i) = "GENUINE_SALES_COLLECTIONS"
                /\ CategoryOf(j) = "SUPPLIER_VENDOR_PAYMENTS"
                /\ ~all_transactions[i].exclude_from_turnover
                /\ ~all_transactions[j].exclude_from_turnover
                /\ PoolIsScenarioPair =>
                       /\ lists.matched_transfers = << >>
                       /\ totals.net_credits = 10000
                       /\ totals.net_debits = 10000

\* The returned run over the two entries of the scenario.
C12_Witness ==
    /\ pc = "done"
    /\ PoolIsScenarioPair
    /\ result.matched_count = 0
    /\ result.business_turnover.net_credits = 10000

C14_BankChargeCeiling ==
    /\ [][ (pc = "d7" /\ pc' = "d8") =>
             \A k \in 1..Len(debits_sorted) :
                 LET i == debits_sorted[k]
                     t == Txn(i)
                 IN  (i \notin used_indices
                        /\ AnyIn(BANK_CHARGE_KEYWORDS, Upper(t.description))) =>
                         /\ (all_transactions'[i + 1].category = "BANK_CHARGES") <=> (t.debit < 1000)
                         /\ (i \in used_indices') <=> (t.debit < 1000) ]_vars
    /\ [][ (pc = "d8" /\ pc' # "d8") =>
             \A k \in 1..Len(debits_sorted) :
                 LET i == debits_sorted[k]
                     t == Txn(i)
                 IN  (i \notin used_indices
                        /\ AnyIn(BANK_CHARGE_KEYWORDS, Upper(t.description))) =>
                         /\ t.debit >= 1000
                         /\ all_transactions'[i + 1].category = "SUPPLIER_VENDOR_PAYMENTS" ]_vars
    /\ [](pc = "done" =>
            \A i \in PoolIndices :
                LET t == all_transactions[i] IN
                (t.description = ScenarioItems[3].description /\ t.credit = 0) =>
                    /\ t.debit = 50 => CategoryOf(i) = "BANK_CHARGES"
                    /\ t.debit = 5000 => CategoryOf(i) = "SUPPLIER_VENDOR_PAYMENTS")

\* A returned run over the two "BANK SERVICE CHARGE" debits, the one of 50
\* categorised BANK_CHARGES and the one of 5,000 SUPPLIER_VENDOR_PAYMENTS.
C14_Witness ==
    /\ pc = "done"
    /\ \E i, j \in PoolIndices :
         /\ all_transactions[i].description = ScenarioItems[3].description
         /\ all_transactions[j].description = ScenarioItems[3].description
         /\ all_transactions[i].debit = 50
         /\ all_transactions[j].debit = 5000
         /\ CategoryOf(i) = "BANK_CHARGES"
         /\ CategoryOf(j) = "SUPPLIER_VENDOR_PAYMENTS"

\* ---- C15 ----
\* The credits of the pool that are GENUINE_SALES_COLLECTIONS, of at least 10,000
\* and divisible by 1,000.
RoundGenuine ==
    { i \in PoolIndices :
        /\ CategoryOf(i) = "GENUINE_SALES_COLLECTIONS"
        /\ all_transactions[i].credit >= 10000
        /\ all_transactions[i].credit % 1000 = 0 }

\* C15: in a returned report the round-figure flags count exactly the credits
\* that are GENUINE_SALES_COLLECTIONS, of at least 10,000 and divisible by 1,000:
\* their number and the sum of their amounts; one flagged entry stands for each
\* such credit and for nothing else.  In particular a credit of 20,000 that no
\* earlier credit stage took is GENUINE_SALES_COLLECTIONS and flagged, and a
\* credit of 20,000 of an excluded category is not.
C15_RoundFigureCountsGenuine ==
    pc = "done" =>
        /\ result.round_figure.count = Cardinality(RoundGenuine)
        /\ result.round_figure.total_amount
               = SumPool(LAMBDA t : t.sorted_idx + 1 \in RoundGenuine, LAMBDA t : t.credit)
        /\ \A i \in PoolIndices :
               (\E k \in 1..Len(round_figure_credits) :
                    round_figure_credits[k] = GenuineEntry(all_transactions[i]))
                   <=> i \in RoundGenuine
        /\ \A i \in PoolIndices :
               (all_transactions[i].credit = 20000
                  /\ CategoryOf(i) \in ExcludedCategories) => i \notin RoundGenuine

\* A returned report over a credit of 20,000 that is GENUINE_SALES_COLLECTIONS and
\* a loan disbursement of 20,000: one credit flagged, 20,000 in total.
C15_Witness ==
    /\ pc = "done"
    /\ \E i, j \in PoolIndices :
         /\ all_transactions[i].credit = 20000
         /\ all_transactions[i].debit = 0
         /\ CategoryOf(i) = "GENUINE_SALES_COLLECTIONS"
         /\ all_transactions[j].credit = 20000
         /\ CategoryOf(j) = "LOAN_DISBURSEMENT"
    /\ result.round_figure.count = 1
    /\ result.round_figure.total_amount = 20000

\* ---- C16 ----
\* The entries of the statement of a loaded account with a debit or a credit.
NonZero(acc) == SelectSeq(data[acc].transactions, LAMBDA t : t.debit # 0 \/ t.credit # 0)

\* The number of such entries in the loaded accounts before position k of the
\* ascending account ids.
RECURSIVE EntriesBefore(_, _)
EntriesBefore(ids, k) ==
    IF k <= 1 THEN 0 ELSE EntriesBefore(ids, k - 1) + Len(NonZero(ids[k - 1]))

\* C16: once the pool is built it holds exactly the entries of the statements of
\* the loaded accounts that have a non-zero debit or credit, one pool entry for
\* each; it is ordered by date ascending, then debit + credit descending, then
\* description ascending, entries equal in all three in ingestion order (accounts
\* by ascending account_id, then statement order); and sorted_idx is the
\* position, 0 to n - 1.
C16_PoolOrderedAndIndexed ==
    (pc \notin { "load", "pool" } /\ DOMAIN data # {}) =>
        LET n == Len(all_transactions)
            ids == LoadedAccounts(data)
            total == EntriesBefore(ids, Len(ids) + 1)
        IN  /\ n = total
            /\ \A k \in 1..Len(ids) : \A m \in 1..Len(NonZero(ids[k])) :
                   \E i \in 1..n :
                       LET t == all_transactions[i]
                           s == NonZero(ids[k])[m]
                       IN  /\ t.idx = EntriesBefore(ids, k) + m - 1
                           /\ t.account_id = ids[k]
                           /\ t.date = s.date /\ t.description = s.description
                           /\ t.debit = s.debit /\ t.credit = s.credit
            /\ \A i \in 1..n : all_transactions[i].sorted_idx = i - 1
            /\ \A i, j \in 1..n :
                   i < j =>
                       LET a == all_transactions[i]
                           b == all_transactions[j]
                       IN  \/ StrLess(a.date, b.date)
                           \/ /\ a.date = b.date
                              /\ \/ a.debit + a.credit > b.debit + b.credit
                                 \/ /\ a.debit + a.credit = b.debit + b.credit
                                    /\ \/ StrLess(a.description, b.description)
                                       \/ /\ a.description = b.description
                                          /\ a.idx < b.idx

\* A returned run whose pool holds two entries equal in date, amount and
\* description, from different accounts, in ingestion order.
C16_Witness ==
    /\ pc = "done"
    /\ \E i, j \in PoolIndices :
         /\ i < j
         /\ all_transactions[i].date = all_transactions[j].date
         /\ all_transactions[i].description = all_transactions[j].description
         /\ all_transactions[i].debit + all_transactions[i].credit
                = all_transactions[j].debit + all_transactions[j].credit
         /\ all_transactions[i].account_id # all_transactions[j].account_id
         /\ all_transactions[i].idx < all_transactions[j].idx

\* ---- C17 ----
\* The distinct months of the pool, and those in which a payment of a statutory
\* type was categorised STATUTORY_PAYMENT.
PoolMonths == { Prefix(all_transactions[i].date, 7) : i \in PoolIndices }

DetectedMonths(type) ==
    { Prefix(all_transactions[i].date, 7) :
        i \in { j \in PoolIndices :
                  /\ CategoryOf(j) = "STATUTORY_PAYMENT"
                  /\ check_statutory(all_transactions[j].description) = type } }

\* C17: in a returned report each of the four statutory types has status FOUND
\* if it was detected in at least max(4, months - 2) distinct months, PARTIAL if
\* in at least one month but fewer than that, NOT_FOUND if in none, months being
\* the number of distinct months of the pool; and its missing_months are exactly
\* the months of the pool in which it was not detected, each listed once.
C17_RecurringStatus ==
    pc = "done" =>
        /\ { result.recurring_payments[k].type : k \in 1..Len(result.recurring_payments) }
               = { "EPF/KWSP", "SOCSO/PERKESO", "LHDN/Tax", "HRDF/PSMB" }
        /\ Len(result.recurring_payments) = 4
        /\ \A k \in 1..Len(result.recurring_payments) :
               LET row == result.recurring_payments[k]
                   months == Cardinality(PoolMonths)
                   found == Cardinality(DetectedMonths(row.type))
                   needed == IF months - 2 > 4 THEN months - 2 ELSE 4
               IN  /\ row.status = IF found >= needed THEN "FOUND"
                                   ELSE IF found >= 1 THEN "PARTIAL"
                                   ELSE "NOT_FOUND"
                   /\ Range(row.missing_months) = PoolMonths \ DetectedMonths(row.type)
                   /\ Len(row.missing_months) = Cardinality(Range(row.missing_months))

\* A returned report over a pool of seven months: one type detected in five of
\* them and FOUND, one detected in one month and PARTIAL, one never detected
\* and NOT_FOUND with all seven months missing.
C17_Witness ==
    /\ pc = "done"
    /\ Cardinality(PoolMonths) = 7
    /\ \E a, b, c \in 1..Len(result.recurring_payments) :
         /\ result.recurring_payments[a].status = "FOUND"
         /\ result.recurring_payments[a].found_count = 5
         /\ Len(result.recurring_payments[a].missing_months) = 2
         /\ result.recurring_payments[b].status = "PARTIAL"
         /\ result.recurring_payments[b].found_count = 1
         /\ result.recurring_payments[c].status = "NOT_FOUND"
         /\ Len(result.recurring_payments[c].missing_months) = 7

\* ---- C18 ----
\* C18: in a returned report the integrity score has exactly 14 checks whose
\* weights add up to 23; every check is PASS and earns its weight, or FAIL and
\* earns 0; points_earned is the sum of what the checks earn; the score is the
\* tenth nearest to points_earned / 23 x 100; and the rating is EXCELLENT for a
\* score of 90 or more, GOOD for 75 or more, FAIR for 60 or more, POOR below.
\* (The score is held in tenths.)
C18_IntegrityScore ==
    pc = "done" =>
        LET s == result.integrity_score
            n == Len(s.checks)
        IN  /\ n = 14
            /\ { s.checks[i].id : i \in 1..n } = 1..14
            /\ SumSeq([ i \in 1..n |-> s.checks[i].weight ]) = 23
            /\ s.points_possible = 23
            /\ \A i \in 1..n :
                   \/ s.checks[i].status = "PASS"
                          /\ s.checks[i].points_earned = s.checks[i].weight
                   \/ s.checks[i].status = "FAIL" /\ s.checks[i].points_earned = 0
            /\ s.points_earned = SumSeq([ i \in 1..n |-> s.checks[i].points_earned ])
            /\ 2 * (23 * s.score - 1000 * s.points_earned) < 23
            /\ 2 * (1000 * s.points_earned - 23 * s.score) < 23
            /\ s.rating = IF s.score >= 900 THEN "EXCELLENT"
                          ELSE IF s.score >= 750 THEN "GOOD"
                          ELSE IF s.score >= 600 THEN "FAIR"
                          ELSE "POOR"

\* A returned report with failed checks of positive weight and 17 points of 23,
\* score 73.9, rating FAIR.
C18_Witness ==
    /\ pc = "done"
    /\ result.integrity_score.points_earned = 17
    /\ result.integrity_score.score = 739
    /\ result.integrity_score.rating = "FAIR"
    /\ \E i \in 1..Len(result.integrity_score.checks) :
         /\ result.integrity_score.checks[i].status = "FAIL"
         /\ result.integrity_score.checks[i].weight = 2

\* ---- C19 ----
\* The (account, month) positions of the accounts array.
MonthRows ==
    UNION { { << i, j >> : j \in 1..Len(accounts[i].monthly_summary) } : i \in 1..Len(accounts) }

\* What calculate_volatility(high, low) has to return: 0 and LOW for high = low
\* or a zero mean; otherwise the band of swing / mean * 100 (at most 50 LOW, at
\* most 100 MODERATE, at most 200 HIGH, above EXTREME), taken on the percentage
\* itself, and as index (in hundredths) either the percentage itself (exact) or
\* the hundredth nearest to it.
VolatilityContract(high, low, index, level, exact) ==
    IF high = low \/ high + low = 0
    THEN index = 0 /\ level = "LOW"
    ELSE LET mean2 == high + low
             swing200 == 200 * (high - low)
             AtMost(p) == IF mean2 > 0 THEN swing200 <= p * mean2 ELSE swing200 >= p * mean2
         IN  /\ level = IF AtMost(50) THEN "LOW"
                        ELSE IF AtMost(100) THEN "MODERATE"
                        ELSE IF AtMost(200) THEN "HIGH"
                        ELSE "EXTREME"
             /\ IF exact THEN index * mean2 = 100 * swing200
                ELSE 2 * Abs(index * mean2 - 100 * swing200) <= Abs(mean2)

\* The monthly rows and the overall volatility of a returned report against the
\* contract, the overall one over the highest high and the lowest low of all
\* months of all accounts (0 and LOW where there is no month).
VolatilityOfReport(exact) ==
    LET rows == MonthRows
        Row(p) == accounts[p[1]].monthly_summary[p[2]]
    IN  /\ \A p \in rows :
               VolatilityContract(Row(p).highest_intraday, Row(p).lowest_intraday,
                                  Row(p).volatility_pct, Row(p).volatility_level, exact)
        /\ IF rows = {}
           THEN result.volatility.index = 0 /\ result.volatility.level = "LOW"
           ELSE \E h, l \in rows :
                    /\ \A p \in rows : Row(p).highest_intraday <= Row(h).highest_intraday
                    /\ \A p \in rows : Row(l).lowest_intraday <= Row(p).lowest_intraday
                    /\ VolatilityContract(Row(h).highest_intraday, Row(l).lowest_intraday,
                                          result.volatility.index, result.volatility.level,
                                          exact)

\* C19 as stated: in a returned report every monthly volatility and the overall
\* volatility are 0 and LOW for high = low or (high + low) / 2 = 0, and otherwise
\* the percentage (high - low) / ((high + low) / 2) x 100 itself with its band.
C19_VolatilityIsThePercentage ==
    pc = "done" => VolatilityOfReport(TRUE)

\* C19: in a returned report every monthly volatility, and the overall volatility
\* over the highest high and the lowest low of all months of all accounts, are 0
\* and LOW for high = low or (high + low) / 2 = 0; otherwise the level is LOW for
\* a percentage (high - low) / ((high + low) / 2) x 100 of at most 50, MODERATE
\* at most 100, HIGH at most 200 and EXTREME above, decided on the percentage
\* before rounding, and the value returned is that percentage rounded to two
\* decimals.
C19_VolatilityRoundedPercentage ==
    pc = "done" => VolatilityOfReport(FALSE)

\* A returned report of two accounts whose overall volatility takes its high from
\* one account and its low from the other, is not a whole number of hundredths
\* and is banded by its unrounded value.
C19_Witness ==
    /\ pc = "done"
    /\ \E h, l \in MonthRows :
         LET high == accounts[h[1]].monthly_summary[h[2]].highest_intraday
             low == accounts[l[1]].monthly_summary[l[2]].lowest_intraday
         IN  /\ h[1] # l[1]
             /\ \A p \in MonthRows :
                    /\ accounts[p[1]].monthly_summary[p[2]].highest_intraday <= high
                    /\ accounts[p[1]].monthly_summary[p[2]].lowest_intraday >= low
             /\ high + low > 0
             /\ result.volatility.index * (high + low) # 20000 * (high - low)
             /\ result.volatility.level = "HIGH"

\* ---- C20 ----
\* The order the claim gives for the credits: date ascending, credit amount
\* descending, description ascending.
CreditBefore(a, b) ==
    \/ StrLess(a.date, b.date)
    \/ a.date = b.date /\ a.credit > b.credit
    \/ a.date = b.date /\ a.credit = b.credit /\ StrLess(a.description, b.description)

\* The same order for the debits, on the debit amount.
DebitBefore(a, b) ==
    \/ StrLess(a.date, b.date)
    \/ a.date = b.date /\ a.debit > b.debit
    \/ a.date = b.date /\ a.debit = b.debit /\ StrLess(a.description, b.description)

\* Debit d satisfies all acceptance conditions for credit c: another account,
\* amounts within 1 unit, dates within 1 day, and a marker or company keyword in
\* either description or an amount of at least 50,000.
Accepts(c, d) ==
    /\ d.account_id # c.account_id
    /\ Abs(c.credit - d.debit) <= 1
    /\ Parses(c.date) /\ Parses(d.date)
    /\ Abs(ParseDate(c.date) - ParseDate(d.date)) <= 1
    /\ \/ DescInfo[c.description].marker
       \/ DescInfo[d.description].marker
       \/ has_company_name(c.description, engine.COMPANY_KEYWORDS)
       \/ has_company_name(d.description, engine.COMPANY_KEYWORDS)
       \/ c.credit >= 50000

\* The positions in debits_sorted of the unconsumed debits that credit c accepts.
AcceptedDebits(c) ==
    { j \in 1..Len(debits_sorted) :
        /\ debits_sorted[j] \notin used_indices
        /\ Accepts(c, Txn(debits_sorted[j])) }

\* The matcher works through the credits, and scans the debits, in the orders
\* stated, each list holding every entry of its side.
MatchingOrder ==
    /\ { credits_sorted[i] : i \in 1..Len(credits_sorted) }
           = { t - 1 : t \in { i \in 1..Len(all_transactions) : all_transactions[i].credit > 0 } }
    /\ { debits_sorted[i] : i \in 1..Len(debits_sorted) }
           = { t - 1 : t \in { i \in 1..Len(all_transactions) : all_transactions[i].debit > 0 } }
    /\ \A i, j \in 1..Len(credits_sorted) :
           i < j => ~CreditBefore(Txn(credits_sorted[j]), Txn(credits_sorted[i]))
    /\ \A i, j \in 1..Len(debits_sorted) :
           i < j => ~DebitBefore(Txn(debits_sorted[j]), Txn(debits_sorted[i]))

\* One turn of the matcher on the credit at position ci: a consumed credit is
\* passed over; an unconsumed one is paired with the first unconsumed debit it
\* accepts, and with that debit alone; without such a debit nothing is paired.
FirstMatchWinsStep ==
    LET c == Txn(credits_sorted[ci])
        accepted == AcceptedDebits(c)
        before == lists.matched_transfers
        after == lists'.matched_transfers
    IN  IF c.sorted_idx \in used_indices \/ accepted = {}
        THEN used_indices' = used_indices /\ after = before
        ELSE LET first == CHOOSE j \in accepted : \A k \in accepted : j <= k
                 d == debits_sorted[first]
             IN  /\ used_indices' = used_indices \cup { c.sorted_idx, d }
                 /\ Len(after) = Len(before) + 1
                 /\ SubSeq(after, 1, Len(before)) = before
                 /\ after[Len(after)].credit_idx = c.sorted_idx
                 /\ after[Len(after)].debit_idx = d
                 /\ all_transactions'[c.sorted_idx + 1].category = "INTER_ACCOUNT_TRANSFER"
                 /\ all_transactions'[d + 1].category = "INTER_ACCOUNT_TRANSFER"

\* C20: the transfer matcher is first-match-wins.  The credits are taken in the
\* order (date ascending, credit amount descending, description ascending), one
\* per turn; an unconsumed credit for which some unconsumed debit satisfies all
\* acceptance conditions is paired with the first such debit in the order (date
\* ascending, debit amount descending, description ascending) and with no other;
\* a credit without such a debit stays unmatched.
C20_FirstMatchWins ==
    [][ pc = "match" => MatchingOrder /\ ci' = ci + 1 /\ FirstMatchWinsStep ]_vars

\* ---- C21 ----
\* The description of t holds a code of the detector's flattened set.
HoldsMissingCode(t) ==
    \E code \in missing_bank_codes : Contains(code, Upper(t.description))

HoldsMarkerOrName(t) ==
    \/ has_inter_account_marker(t.description)
    \/ has_company_name(t.description, engine.COMPANY_KEYWORDS)

HoldsRelatedParty(t) ==
    \E k \in 1..Len(rp_patterns) : \E j \in 1..Len(rp_patterns[k].patterns) :
        Contains(rp_patterns[k].patterns[j], Upper(t.description))

\* The category of the first credit stage whose test the description of t
\* satisfies: unverified inter-account, related party, loan disbursement,
\* interest / profit / dividend, reversal, default.
FirstCreditStage(t) ==
    IF HoldsMissingCode(t) /\ HoldsMarkerOrName(t) THEN "INTER_ACCOUNT_TRANSFER_UNVERIFIED"
    ELSE IF HoldsRelatedParty(t) THEN "RELATED_PARTY"
    ELSE IF AnyIn(DISBURSEMENT_KEYWORDS, Upper(t.description)) THEN "LOAN_DISBURSEMENT"
    ELSE IF AnyIn(INTEREST_KEYWORDS, Upper(t.description)) THEN "INTEREST_PROFIT_DIVIDEND"
    ELSE IF AnyIn(REVERSAL_KEYWORDS, Upper(t.description)) THEN "REVERSAL"
    ELSE "GENUINE_SALES_COLLECTIONS"

\* The sorted_idx of the transactions the matcher paired.
Matched ==
    { lists.matched_transfers[k].credit_idx : k \in 1..Len(lists.matched_transfers) }
        \cup { lists.matched_transfers[k].debit_idx : k \in 1..Len(lists.matched_transfers) }

\* C21: once the credit stages have run, and in the report returned, every
\* credit the matcher left unconsumed has the category of the first stage, in
\* the order unverified inter-account, related party, loan disbursement,
\* interest / profit / dividend, reversal, default, whose test its description
\* satisfies: a credit satisfying both the unverified rule and a related-party
\* pattern is INTER_ACCOUNT_TRANSFER_UNVERIFIED, one satisfying no test is
\* GENUINE_SALES_COLLECTIONS.
C21_CreditStageOrder ==
    pc \in { "d2", "done" } =>
        \A i \in PoolIndices :
            (all_transactions[i].credit > 0 /\ all_transactions[i].sorted_idx \notin Matched)
                => CategoryOf(i) = FirstCreditStage(all_transactions[i])

\* A returned report with a credit that satisfies the unverified rule and a
\* related-party pattern, categorised INTER_ACCOUNT_TRANSFER_UNVERIFIED, a credit
\* that holds a related-party pattern and a disbursement keyword, categorised
\* RELATED_PARTY, and a credit that satisfies no test, categorised
\* GENUINE_SALES_COLLECTIONS.
C21_Witness ==
    /\ pc = "done"
    /\ \E i, j, k \in PoolIndices :
         /\ all_transactions[i].credit > 0
         /\ HoldsMissingCode(all_transactions[i]) /\ HoldsMarkerOrName(all_transactions[i])
         /\ HoldsRelatedParty(all_transactions[i])
         /\ CategoryOf(i) = "INTER_ACCOUNT_TRANSFER_UNVERIFIED"
         /\ all_transactions[j].credit > 0
         /\ HoldsRelatedParty(all_transactions[j])
         /\ AnyIn(DISBURSEMENT_KEYWORDS, Upper(all_transactions[j].description))
         /\ CategoryOf(j) = "RELATED_PARTY"
         /\ all_transactions[k].credit > 0
         /\ FirstCreditStage(all_transactions[k]) = "GENUINE_SALES_COLLECTIONS"
         /\ CategoryOf(k) = "GENUINE_SALES_COLLECTIONS"

\* ---- C22 ----
\* The category of the first debit stage whose test t satisfies: related party,
\* unverified inter-account, statutory payment, salary / wages, utilities, bank
\* charges (keyword and an amount below 1,000), default.
FirstDebitStage(t) ==
    IF HoldsRelatedParty(t) THEN "RELATED_PARTY"
    ELSE IF HoldsMissingCode(t) /\ HoldsMarkerOrName(t) THEN "INTER_ACCOUNT_TRANSFER_UNVERIFIED"
    ELSE IF check_statutory(t.description) # "None" THEN "STATUTORY_PAYMENT"
    ELSE IF AnyIn(SALARY_KEYWORDS, Upper(t.description)) THEN "SALARY_WAGES"
    ELSE IF AnyIn(UTILITY_KEYWORDS, Upper(t.description)) THEN "UTILITIES"
    ELSE IF AnyIn(BANK_CHARGE_KEYWORDS, Upper(t.description)) /\ t.debit < 1000
         THEN "BANK_CHARGES"
    ELSE "SUPPLIER_VENDOR_PAYMENTS"

\* The debits that are not consumed when the debit stages start: the matcher
\* has not paired them and no credit stage has taken them as a credit.
DebitsForStages ==
    { i \in PoolIndices :
        /\ all_transactions[i].debit > 0
        /\ all_transactions[i].credit = 0
        /\ all_transactions[i].sorted_idx \notin Matched }

\* C22: once the debit stages have run, and in the report returned, every debit
\* that was not consumed when they started has the category of the first stage,
\* in the order related party, unverified inter-account, statutory payment,
\* salary / wages, utilities, bank charges (keyword and amount < 1000), default,
\* whose test it satisfies: a debit with a related-party pattern is RELATED_PARTY
\* also when it holds a statutory keyword or satisfies the unverified rule, and a
\* debit with a statutory and a salary keyword is STATUTORY_PAYMENT.
C22_DebitStageOrder ==
    /\ pc = "d2" => \A i \in PoolIndices :
                        all_transactions[i].sorted_idx \notin used_indices <=> i \in DebitsForStages
    /\ pc \in { "totals", "done" } =>
           \A i \in DebitsForStages : CategoryOf(i) = FirstDebitStage(all_transactions[i])

\* A returned report with a debit that holds a related-party pattern and a
\* statutory keyword, one that holds a related-party pattern and satisfies the
\* unverified rule, both RELATED_PARTY, and one that holds a statutory and a
\* salary keyword, STATUTORY_PAYMENT.
C22_Witness ==
    /\ pc = "done"
    /\ \E i, j, k \in DebitsForStages :
         /\ HoldsRelatedParty(all_transactions[i])
         /\ check_statutory(all_transactions[i].description) # "None"
         /\ CategoryOf(i) = "RELATED_PARTY"
         /\ HoldsRelatedParty(all_transactions[j])
         /\ HoldsMissingCode(all_transactions[j]) /\ HoldsMarkerOrName(all_transactions[j])
         /\ CategoryOf(j) = "RELATED_PARTY"
         /\ ~HoldsRelatedParty(all_transactions[k])
         /\ check_statutory(all_transactions[k].description) # "None"
         /\ AnyIn(SALARY_KEYWORDS, Upper(all_transactions[k].description))
         /\ CategoryOf(k) = "STATUTORY_PAYMENT"

\* ---- C23 ----
\* The transactions whose category has been set.
Categorised == { i \in PoolIndices : CategoryOf(i) # "None" }

\* The steps of the matcher and of the credit and debit stages.
ClassifyingStep ==
    pc \in { "match", "c2", "c3", "c4", "c5", "c6", "c7",
             "d2", "d3", "d4", "d5", "d6", "d7", "d8" }

\* C23: at every step of a run the consumed set only grows; a transaction's
\* sorted_idx is in the consumed set exactly if its category has been set; and
\* no step of the matcher or of a stage writes the category of a transaction
\* that is in the consumed set, so that a category once written stays, also for
\* a transaction that is in the credit list and in the debit list.
C23_ConsumedOnceCategorisedOnce ==
    /\ [](\A i \in PoolIndices :
             all_transactions[i].sorted_idx \in used_indices <=> CategoryOf(i) # "None")
    /\ [][ /\ used_indices \subseteq used_indices'
           /\ ClassifyingStep =>
                /\ Len(all_transactions') = Len(all_transactions)
                /\ \A i \in PoolIndices :
                     /\ all_transactions'[i].sorted_idx = all_transactions[i].sorted_idx
                     /\ all_transactions[i].sorted_idx \in used_indices =>
                            all_transactions'[i].category = all_transactions[i].category
                     /\ all_transactions'[i].category # all_transactions[i].category =>
                            all_transactions[i].category = "None" ]_vars

\* A returned report over an entry with a debit and a credit that the matcher
\* paired as a debit: it is INTER_ACCOUNT_TRANSFER, and no credit stage has
\* given it another category.
C23_Witness ==
    /\ pc = "done"
    /\ \E i \in PoolIndices :
         /\ all_transactions[i].credit > 0
         /\ all_transactions[i].debit > 0
         /\ \E k \in 1..Len(lists.matched_transfers) :
                lists.matched_transfers[k].debit_idx = all_transactions[i].sorted_idx
         /\ CategoryOf(i) = "INTER_ACCOUNT_TRANSFER"

\* ---- C24 ----
\* The pool transactions whose description holds code, case-insensitively.
Holding(code) ==
    { i \in PoolIndices : Contains(code, Upper(all_transactions[i].description)) }

\* The codes of the bank-code table that occur in a pool description and are not
\* among the provided bank codes.
MissingTableCodes ==
    { BANK_CODES[k].code : k \in { j \in 1..Len(BANK_CODES) :
                                     /\ BANK_CODES[j].code \notin engine.PROVIDED_BANK_CODES
                                     /\ Holding(BANK_CODES[j].code) # {} } }

\* The detector has run.
Detected_Done == pc \notin { "load", "pool", "detect" } /\ error # "ValueError: No data files loaded"

\* The flattened set is the set of missing table codes.
FlattenedSetIsMissingCodes == Detected_Done => missing_bank_codes = MissingTableCodes

\* Every missing table code has one counter, which holds the number of pool
\* transactions with the code in their description, and there is no other counter.
CountersAreOccurrences ==
    Detected_Done =>
        /\ \A k \in 1..Len(BANK_CODES) :
               BANK_CODES[k].code \in MissingTableCodes =>
                   \E n \in 1..Len(missing_accounts) :
                       /\ missing_accounts[n].key = MissingKey(BANK_CODES[k])
                       /\ missing_accounts[n].count = Cardinality(Holding(BANK_CODES[k].code))
        /\ \A n \in 1..Len(missing_accounts) :
               \E k \in 1..Len(BANK_CODES) :
                   /\ BANK_CODES[k].code \in MissingTableCodes
                   /\ missing_accounts[n].key = MissingKey(BANK_CODES[k])
        /\ \A m, n \in 1..Len(missing_accounts) :
               missing_accounts[m].key = missing_accounts[n].key => m = n

\* The detector leaves the pool and the consumed set as they are.
DetectorOnlyDetects ==
    [][ pc = "detect" => all_transactions' = all_transactions /\ used_indices' = used_indices ]_vars

\* C24: the flattened set of missing codes is exactly the set of codes of the
\* bank-code table, of one word or of several, that occur case-insensitively in
\* a pool description and are not provided; the counter of each such code is the
\* number of pool transactions whose description holds it; and the detector
\* changes no category and adds nothing to the consumed set.
C24_MissingCodes ==
    /\ []FlattenedSetIsMissingCodes
    /\ []CountersAreOccurrences
    /\ DetectorOnlyDetects

\* ---- C25 ----
\* The banks of the statements the run loaded, as the account table names them.
SuppliedBanks == { engine.ACCOUNT_INFO[a].bank_name : a \in DOMAIN data }

\* The codes of the bank-code table that stand for a bank of a loaded statement.
SuppliedBankCodes ==
    { BANK_CODES[k].code : k \in { j \in 1..Len(BANK_CODES) :
                                     BANK_CODES[j].name \in SuppliedBanks } }

\* The provided set the detector compares against covers the loaded statements.
ProvidedCoversSupplied ==
    pc \notin { "load" } /\ DOMAIN data # {} => SuppliedBankCodes \subseteq engine.PROVIDED_BANK_CODES

\* No bank of a loaded statement is listed as not provided, and none of its
\* codes is among the codes the unverified stages test descriptions against.
ListedOnlyIfNotSupplied ==
    pc = "done" =>
        /\ \A n \in 1..Len(result.accounts_not_provided) :
               \A k \in 1..Len(BANK_CODES) :
                   result.accounts_not_provided[n].key = MissingKey(BANK_CODES[k]) =>
                       BANK_CODES[k].name \notin SuppliedBanks
        /\ missing_bank_codes \cap SuppliedBankCodes = {}

\* C25: in a run with the globals the application patches in, a bank is listed
\* in accounts_not_provided, and its code used to recognise unverified
\* transfers, only if no statement of that bank was loaded: the provided bank
\* codes cover the banks of the loaded statements.
C25_ProvidedCoversUploads == ProvidedCoversSupplied /\ ListedOnlyIfNotSupplied

\* ---- C26 ----
\* The matcher has worked through every credit without raising.
MatcherFinished == pc \in { "c2", "d2", "totals", "accounts", "report", "done" }

\* The pool transactions of each side that are not consumed.
UnconsumedCredits ==
    { i \in PoolIndices : all_transactions[i].credit > 0
                          /\ all_transactions[i].sorted_idx \notin used_indices }

UnconsumedDebits ==
    { i \in PoolIndices : all_transactions[i].debit > 0
                          /\ all_transactions[i].sorted_idx \notin used_indices }

\* C26: when the transfer matcher has finished, the matching is maximal: no
\* credit and debit that are both unconsumed satisfy all acceptance conditions
\* (another account, amounts within 1 unit, dates within 1 day, and a marker or
\* company keyword in either description or a credit of at least 50,000).
C26_MatchingIsMaximal ==
    MatcherFinished =>
        \A i \in UnconsumedCredits : \A j \in UnconsumedDebits :
            ~Accepts(all_transactions[i], all_transactions[j])

\* The matcher has just finished with a pair matched, a credit and a debit left
\* unconsumed, and the credit left accepting a debit that an earlier credit took.
C26_Witness ==
    /\ pc = "c2"
    /\ lists.matched_transfers # <<>>
    /\ UnconsumedDebits # {}
    /\ \E i \in UnconsumedCredits :
           \E j \in PoolIndices :
               /\ all_transactions[j].debit > 0
               /\ all_transactions[j].sorted_idx \in used_indices
               /\ Accepts(all_transactions[i], all_transactions[j])

\* ---- C27 ----
\* The sorted_idx of the two transactions of the matched transfer at position m.
PairOf(m) == { lists.matched_transfers[m].credit_idx, lists.matched_transfers[m].debit_idx }

\* The pool transactions categorised as matched inter-account transfers.
MatchedTransactions ==
    { i \in PoolIndices : all_transactions[i].category = "INTER_ACCOUNT_TRANSFER" }

\* C27: the matched transfers form a matching over the pool: the credit and the
\* debit of a matched transfer are two transactions, no transaction is in two
\* matched transfers on either side, and the transactions categorised
\* INTER_ACCOUNT_TRANSFER are twice as many as the matched transfers.
C27_MatchedTransfersAreAMatching ==
    LET matched == lists.matched_transfers IN
    /\ \A m \in 1..Len(matched) :
           /\ matched[m].credit_idx # matched[m].debit_idx
           /\ Txn(matched[m].credit_idx).credit > 0
           /\ Txn(matched[m].debit_idx).debit > 0
    /\ \A m, n \in 1..Len(matched) : m # n => PairOf(m) \cap PairOf(n) = {}
    /\ Cardinality(MatchedTransactions) = 2 * Len(matched)

\* A finished run in which a transaction with a debit and a credit is the debit
\* of a matched transfer while a debit that its credit side accepts is left out
\* of the matching.
C27_Witness ==
    /\ pc = "done"
    /\ \E i \in MatchedTransactions :
           /\ all_transactions[i].credit > 0 /\ all_transactions[i].debit > 0
           /\ \E m \in 1..Len(lists.matched_transfers) :
                  lists.matched_transfers[m].debit_idx = all_transactions[i].sorted_idx
           /\ \E j \in PoolIndices \ MatchedTransactions :
                  /\ all_transactions[j].debit > 0
                  /\ Accepts(all_transactions[i], all_transactions[j])

\* ---- C28 ----
\* The configured parties whose full name is in the description of t.
NamedParties(t) ==
    { k \in 1..Len(engine.RELATED_PARTIES) :
        Contains(Upper(engine.RELATED_PARTIES[k].name), Upper(t.description)) }

\* C28: a transaction categorised RELATED_PARTY whose description holds the full
\* name of exactly one configured party carries that party's name and
\* relationship, also when a party earlier in the list shares its first
\* significant word.
C28_AnnotatedWithNamedParty ==
    \A i \in PoolIndices :
        LET t == all_transactions[i] IN
        CategoryOf(i) = "RELATED_PARTY" /\ Cardinality(NamedParties(t)) = 1 =>
            \A k \in NamedParties(t) :
                /\ t.is_related_party
                /\ t.related_party_name = engine.RELATED_PARTIES[k].name
                /\ t.related_party_relationship = engine.RELATED_PARTIES[k].relationship

\* ---- C29 ----
\* What the checks other than Data Completeness earn together.
PointsOfOtherChecks ==
    LET c == result.integrity_score.checks
    IN  SumSeq([ i \in 1..Len(c) |-> IF c[i].id = 14 THEN 0 ELSE c[i].points_earned ])

\* C29: in every returned report points_earned is at least 15 and at most 23
\* and the rating is not POOR; check 14 (Data Completeness) fails exactly when
\* a missing account was detected and, passed or failed, earns nothing, so that
\* points_earned, the score and the rating are those of the other thirteen
\* checks.  (The score is held in tenths.)
C29_PointsRangeAndCompleteness ==
    pc = "done" =>
        LET s == result.integrity_score IN
        /\ s.points_earned >= 15 /\ s.points_earned <= 23
        /\ s.rating # "POOR"
        /\ \A i \in 1..Len(s.checks) :
               s.checks[i].id = 14 =>
                   /\ s.checks[i].status = (IF missing_accounts = << >> THEN "PASS" ELSE "FAIL")
                   /\ s.checks[i].weight = 0
                   /\ s.checks[i].points_earned = 0
        /\ s.points_earned = PointsOfOtherChecks
        /\ 2 * (23 * s.score - 1000 * PointsOfOtherChecks) < 23
        /\ 2 * (1000 * PointsOfOtherChecks - 23 * s.score) < 23
        /\ s.rating = (IF 10 * PointsOfOtherChecks >= 9 * 23 THEN "EXCELLENT"
                       ELSE IF 100 * PointsOfOtherChecks >= 75 * 23 THEN "GOOD"
                       ELSE "FAIR")

\* A returned report in which Data Completeness failed and the points are the
\* least possible, 15, the rating FAIR.
C29_Witness ==
    /\ pc = "done"
    /\ result.integrity_score.points_earned = 15
    /\ result.integrity_score.rating = "FAIR"
    /\ \E i \in 1..Len(result.integrity_score.checks) :
           /\ result.integrity_score.checks[i].id = 14
           /\ result.integrity_score.checks[i].status = "FAIL"

\* ---- C30 ----
\* C30: in a returned report over a pool of at most 3 distinct months no
\* statutory type has status FOUND, checks 10 to 13 all FAIL, points_earned is
\* at most 19 and the rating is not EXCELLENT.
C30_ShortPoolNeverFound ==
    pc = "done" /\ Cardinality(PoolMonths) <= 3 =>
        LET s == result.integrity_score IN
        /\ \A k \in 1..Len(result.recurring_payments) :
               result.recurring_payments[k].status # "FOUND"
        /\ \A i \in 1..Len(s.checks) :
               s.checks[i].id \in 10..13 =>
                   s.checks[i].status = "FAIL" /\ s.checks[i].points_earned = 0
        /\ s.points_earned <= 19
        /\ s.rating # "EXCELLENT"

\* A returned report over a pool of three months with a statutory type paid in
\* each of them: the type is PARTIAL and its check failed, the other checks
\* passed, 19 points.
C30_Witness ==
    /\ pc = "done"
    /\ Cardinality(PoolMonths) = 3
    /\ \E k \in 1..Len(result.recurring_payments) :
           /\ DetectedMonths(result.recurring_payments[k].type) = PoolMonths
           /\ result.recurring_payments[k].status = "PARTIAL"
           /\ result.recurring_payments[k].found_count = 3
    /\ result.integrity_score.points_earned = 19

=============================================================================
